---- MODULE Spec2Model ----
(***************************************************************************)
(* Verification model of chuk-leaderboard's rating systems:                *)
(*   rating_systems/elo.py, glicko2.py, points_based.py, registry.py,      *)
(*   visualizers/rating_visualizer.py, rating_history_visualizer.py.       *)
(*                                                                         *)
(* Spec is one caller that feeds outcomes to one instance and asks it for  *)
(* expected outcomes; SpecRegistry is the operations of the registry;      *)
(* SpecShared is two callers whose calls on one instance interleave;       *)
(* SpecQueries is the query functions (the Points projection, trend and    *)
(* ranking, the Elo dynamic K) and the visualizers' rating history.        *)
(*                                                                         *)
(* Python floats are modelled as decimal fixed-point integers.  A value on *)
(* the unit scale (probabilities, the Glicko-2 scale mu/phi, volatility)   *)
(* is stored as round(value * One); a value on the rating scale (ratings,  *)
(* rating deviations, Elo points) is stored as round(value * RatingUnit).  *)
(* Every product and quotient is rounded to the nearest unit, as a float   *)
(* operation rounds to the nearest representable value.                    *)
(***************************************************************************)
EXTENDS Integers, Sequences, FiniteSets, TLC

\* ------------------------------------------------------------------------
\* Fixed-point arithmetic (the model of Python float arithmetic)
\* ------------------------------------------------------------------------

\* 1.0 on the unit scale: six decimal digits.
One == 1000 * 1000

\* 1.0 rating point on the rating scale: five decimal digits.
RatingUnit == 100 * 1000

Abs(x) == IF x < 0 THEN -x ELSE x

Sgn(x) == IF x < 0 THEN -1 ELSE 1

Min(a, b) == IF a <= b THEN a ELSE b

Max(a, b) == IF a >= b THEN a ELSE b

\* The base of the limbs a product is formed in: One = Limb * Limb.
Limb == 10 * 10 * 10

\* a * b / One rounded to the nearest unit (halves away from zero), for
\* |a|, |b| < 10^9.  The product is formed limb by limb so that no
\* intermediate leaves the 32-bit integers of TLC.
FMulLimbs(xh, xl, yh, yl) ==
    xh * yh + (xh * yl + xl * yh) \div Limb
        + (((xh * yl + xl * yh) % Limb) * Limb + xl * yl + One \div 2) \div One

FMul(a, b) ==
    Sgn(a) * Sgn(b)
        * FMulLimbs(Abs(a) \div Limb, Abs(a) % Limb, Abs(b) \div Limb, Abs(b) % Limb)

\* <<q, r>> with r0 * 10^k = q * c + r and 0 <= r < c, for 0 <= r0 < c and
\* c < 2 * 10^8, by decimal long division.
LongDivStep(h, c) == <<10 * h[1] + (10 * h[2]) \div c, (10 * h[2]) % c>>

RECURSIVE LongDiv(_, _, _)
LongDiv(r0, c, k) ==
    IF k = 0 THEN <<0, r0>> ELSE LongDivStep(LongDiv(r0, c, k - 1), c)

\* a * One / b rounded to the nearest unit (halves away from zero), for
\* 0 < |b| < 2 * 10^8.
FDivRound(whole, qr, z) ==
    whole * One + qr[1] + (IF 2 * qr[2] >= z THEN 1 ELSE 0)

FDivAbs(x, z) == FDivRound(x \div z, LongDiv(x % z, z, 6), z)

FDiv(a, b) == Sgn(a) * Sgn(b) * FDivAbs(Abs(a), Abs(b))

\* Newton iteration for the square root, from a start at or above the root.
RECURSIVE SqrtIter(_, _)
SqrtNext(x, y, n) == IF n >= y THEN y ELSE SqrtIter(x, n)

SqrtIter(x, y) == SqrtNext(x, y, (y + FDiv(x, y)) \div 2)

\* a / b rounded to the nearest integer (halves away from zero), b > 0.
RoundDiv(a, b) == Sgn(a) * ((2 * Abs(a) + b) \div (2 * b))

\* math.sqrt on the unit scale.  The start is the power of ten at or above
\* the root.
FSqrt(x) ==
    IF x <= 0 THEN 0
    ELSE IF x <= One THEN SqrtIter(x, One)
    ELSE IF x <= 100 * One THEN SqrtIter(x, 10 * One)
    ELSE SqrtIter(x, 100 * One)

\* e^(-k) on the unit scale for k = 0 .. 14; e^(-k) is below half a unit
\* from k = 15 on.
ExpNegInt ==
    <<1000000, 367879, 135335, 49787, 18316, 6738, 2479, 912, 335, 123, 45,
      17, 6, 2, 1>>

\* Horner evaluation of the Taylor series of e^(-f), 0 <= f < 1, from term n.
RECURSIVE ExpNegFrac(_, _)
ExpNegFrac(f, n) ==
    IF n > 12 THEN One ELSE One - FMul(f, ExpNegFrac(f, n + 1)) \div n

\* math.exp(-x) on the unit scale, for x >= 0.
ExpNeg(x) ==
    IF x \div One >= Len(ExpNegInt) THEN 0
    ELSE FMul(ExpNegInt[x \div One + 1], ExpNegFrac(x % One, 1))

\* 1 / (1 + math.exp(-x)).  For x < 0 the float exp(-x) is large and the
\* quotient is formed as e^x / (1 + e^x), the same real number, because the
\* fixed-point range cannot hold e^(-x).
LogisticOfExp(t) == FDiv(t, One + t)

Logistic(x) ==
    IF x >= 0 THEN FDiv(One, One + ExpNeg(x)) ELSE LogisticOfExp(ExpNeg(-x))

\* ------------------------------------------------------------------------
\* Glicko-2 (rating_systems/glicko2.py)
\* A rating state is the tuple <<rating, rd, vol>>, rating and rd on the
\* rating scale and vol on the unit scale; an outcome is the tuple
\* <<opp_r, opp_rd, result>> with result on the unit scale.
\* ------------------------------------------------------------------------

\* self._scale_factor = 173.7178, on the rating scale.
ScaleFactor == 17371780

\* self._default_rating, in rating points.
DefaultRating == 1500

\* self._default_rd, in rating points.
DefaultRd == 350

\* self._default_vol = 0.06, on the unit scale.
DefaultVol == 60000

\* math.pi ** 2 on the unit scale.
PiSquared == 9869604

\* The bounds 0.01 and 0.1 of the clamp on the new volatility.
VolFloor == 10000

VolCeiling == 100000

\* get_default_rating
GlickoDefaultRating == <<DefaultRating * RatingUnit, DefaultRd * RatingUnit, DefaultVol>>

\* mu = (rating - self._default_rating) / self._scale_factor
ToMu(rating) == FDiv(rating - DefaultRating * RatingUnit, ScaleFactor)

\* phi = rd / self._scale_factor
ToPhi(rd) == FDiv(rd, ScaleFactor)

\* g = 1 / math.sqrt(1 + 3 * opp_phi**2 / math.pi**2)
G(opp_phi) == FDiv(One, FSqrt(One + FDiv(3 * FMul(opp_phi, opp_phi), PiSquared)))

\* The argument g * (mu - opp_mu) whose negation is passed to math.exp.
ExpArg(mu, o) == FMul(G(ToPhi(o[2])), mu - ToMu(o[1]))

\* E = 1 / (1 + math.exp(-g * (mu - opp_mu)))
ExpectedE(mu, o) == Logistic(ExpArg(mu, o))

\* One pass of the loop over the outcomes: v_sum += g**2 * E * (1 - E)
VTerm(g, E) == FMul(FMul(FMul(g, g), E), One - E)

RECURSIVE VSum(_, _)
VSum(mu, outcomes) ==
    IF outcomes = << >> THEN 0
    ELSE VTerm(G(ToPhi(Head(outcomes)[2])), ExpectedE(mu, Head(outcomes)))
             + VSum(mu, Tail(outcomes))

\* One pass of the loop over the outcomes: delta_sum += g * (result - E)
DeltaTerm(mu, o) == FMul(G(ToPhi(o[2])), o[3] - ExpectedE(mu, o))

RECURSIVE DeltaSum(_, _)
DeltaSum(mu, outcomes) ==
    IF outcomes = << >> THEN 0
    ELSE DeltaTerm(mu, Head(outcomes)) + DeltaSum(mu, Tail(outcomes))

\* abs(delta) > phi + v, with v = 1 / v_sum and delta = v * delta_sum.
\* v grows without bound as v_sum approaches 0 and leaves the fixed-point
\* range, so both sides are multiplied by v_sum > 0.
Unexpected(delta_sum, phi, v_sum) == Abs(delta_sum) > FMul(phi, v_sum) + One

\* adjustment = 1.2 when performance is unexpected, else 0.9;
\* new_vol = vol * adjustment
AdjustVol(vol, unexpected) ==
    IF unexpected THEN RoundDiv(vol * 12, 10) ELSE RoundDiv(vol * 9, 10)

\* The clamp without its floor: min(new_vol, 0.1).
ClampVolCeilingOnly(new_vol) == Min(new_vol, VolCeiling)

\* new_vol = max(0.01, min(new_vol, 0.1))
ClampVol(new_vol) == Max(VolFloor, Min(new_vol, VolCeiling))

\* phi_star = math.sqrt(phi**2 + new_vol**2)
PhiStar(phi, new_vol) == FSqrt(FMul(phi, phi) + FMul(new_vol, new_vol))

\* new_phi = 1 / math.sqrt(1/phi_star**2 + 1/v), with 1/v = v_sum.
NewPhi(phi_star, v_sum) ==
    FDiv(One, FSqrt(FDiv(One, FMul(phi_star, phi_star)) + v_sum))

\* The update with the sign of the performance reversed.
NewMuAgainstDelta(mu, new_phi, delta_sum) == mu - FMul(FMul(new_phi, new_phi), delta_sum)

\* new_mu = mu + new_phi**2 * delta_sum
NewMu(mu, new_phi, delta_sum) == mu + FMul(FMul(new_phi, new_phi), delta_sum)

\* new_rating = self._scale_factor * new_mu + self._default_rating
FromMu(new_mu) == FMul(new_mu, ScaleFactor) + DefaultRating * RatingUnit

\* new_rd = self._scale_factor * new_phi
FromPhi(new_phi) == FMul(new_phi, ScaleFactor)

\* floor(sqrt(a**2 + b**2)) for a, b >= 0 on the rating scale, formed as
\* a + d for the largest d with d * (2a + d) <= b**2 because a**2 exceeds
\* the integer range.
RECURSIVE HypotStep(_, _, _)
HypotStep(a, b, d) ==
    IF d = 0 \/ 2 * a + d <= (b * b) \div d THEN a + d
    ELSE HypotStep(a, b, d - 1)

Hypot(a, b) == HypotStep(a, b, Min(b, (b * b) \div Max(2 * a, 1)))

\* The inactivity branch: new_rd = min(math.sqrt(rd**2 + vol**2), 350).
\* vol is a unit-scale value added to a rating-scale one, as in the code.
InactiveRd(rd, vol) ==
    Min(Hypot(Abs(rd), Abs(vol) \div (One \div RatingUnit)), DefaultRd * RatingUnit)

\* The last statements of calculate_rating: the rating update and the
\* conversion back to the rating scale.
GlickoScaleBack(mu, delta_sum, new_vol, new_phi) ==
    <<FromMu(NewMu(mu, new_phi, delta_sum)), FromPhi(new_phi), new_vol>>

\* calculate_rating from the volatility update on, once the loop has left a
\* nonzero v_sum.
GlickoNewState(mu, phi, v_sum, delta_sum, new_vol) ==
    GlickoScaleBack(mu, delta_sum, new_vol, NewPhi(PhiStar(phi, new_vol), v_sum))

\* calculate_rating after the loop: the early return on v_sum == 0, else
\* the updates.
GlickoAfterLoop(rating, rd, vol, mu, phi, v_sum, delta_sum) ==
    IF v_sum = 0 THEN <<rating, rd, vol>>
    ELSE GlickoNewState(mu, phi, v_sum, delta_sum,
             ClampVol(AdjustVol(vol, Unexpected(delta_sum, phi, v_sum))))

\* calculate_rating from the conversion to the Glicko-2 scale through the
\* loop over the outcomes.
GlickoLoop(rating, rd, vol, mu, phi, outcomes) ==
    GlickoAfterLoop(rating, rd, vol, mu, phi, VSum(mu, outcomes), DeltaSum(mu, outcomes))

\* Glicko2RatingSystem.calculate_rating(current_rating, outcomes)
GlickoCalculateRating(current_rating, outcomes) ==
    IF outcomes = << >>
    THEN <<current_rating[1], InactiveRd(current_rating[2], current_rating[3]),
           current_rating[3]>>
    ELSE GlickoLoop(current_rating[1], current_rating[2], current_rating[3],
                    ToMu(current_rating[1]), ToPhi(current_rating[2]), outcomes)

\* expected_outcome with g taken of the first participant's deviation.
GlickoExpectedOutcomeOwnDeviation(rating1, rating2) ==
    Logistic(FMul(G(ToPhi(rating1[2])), ToMu(rating1[1]) - ToMu(rating2[1])))

\* Glicko2RatingSystem.expected_outcome(rating1, rating2), each rating the
\* tuple <<rating, rd>>: g is taken from phi2 alone and phi1 is not used.
\*     g = 1 / math.sqrt(1 + 3 * phi2**2 / math.pi**2)
\*     E = 1 / (1 + math.exp(-g * (mu1 - mu2)))
GlickoExpectedOutcome(rating1, rating2) ==
    Logistic(FMul(G(ToPhi(rating2[2])), ToMu(rating1[1]) - ToMu(rating2[1])))

\* ------------------------------------------------------------------------
\* Elo (rating_systems/elo.py)
\* A rating state is one number on the rating scale; an outcome is the tuple
\* <<opponent_rating, result>> with result on the unit scale.
\* ------------------------------------------------------------------------

\* The natural logarithm of 10 on the unit scale: math.pow(10, x) is
\* e^(x * ln 10).
Ln10 == 2302585

\* The expectation taken from the size of the rating gap, whichever side
\* holds the higher rating.
EloExpectedOutcomeOfGap(rating1, rating2) ==
    Logistic(RoundDiv(FMul(Abs(rating1 - rating2), Ln10), 400 \div (One \div RatingUnit)))

\* expected_outcome: 1.0 / (1.0 + math.pow(10, (rating2 - rating1) / 400.0)),
\* the logistic of (rating1 - rating2) / 400 * ln 10.
EloExpectedOutcome(rating1, rating2) ==
    Logistic(RoundDiv(FMul(rating1 - rating2, Ln10), 400 \div (One \div RatingUnit)))

\* calculate_rating_change: self.k_factor * (result - expected), a number
\* of rating points.
EloCalculateRatingChange(k_factor, rating, opponent_rating, result) ==
    RoundDiv(k_factor * (result - EloExpectedOutcome(rating, opponent_rating)),
             One \div RatingUnit)

\* The loop with the expected score taken against the running rating:
\*     expected = self.expected_outcome(new_rating, opponent_rating)
RECURSIVE EloLoopRunningRating(_, _, _, _)
EloLoopRunningRating(k_factor, current_rating, new_rating, outcomes) ==
    IF outcomes = << >> THEN new_rating
    ELSE EloLoopRunningRating(k_factor, current_rating,
                 new_rating + RoundDiv(k_factor * (Head(outcomes)[2]
                                  - EloExpectedOutcome(new_rating, Head(outcomes)[1])),
                              One \div RatingUnit),
                 Tail(outcomes))

\* The loop with the difference reversed:
\*     new_rating += self.k_factor * (expected - result)
RECURSIVE EloLoopReversedDifference(_, _, _, _)
EloLoopReversedDifference(k_factor, current_rating, new_rating, outcomes) ==
    IF outcomes = << >> THEN new_rating
    ELSE EloLoopReversedDifference(k_factor, current_rating,
                 new_rating + RoundDiv(k_factor * (EloExpectedOutcome(current_rating,
                                                       Head(outcomes)[1])
                                  - Head(outcomes)[2]),
                              One \div RatingUnit),
                 Tail(outcomes))

\* The loop of calculate_rating.  The expected score of every outcome is
\* taken against current_rating, the rating passed into the call:
\*     expected = self.expected_outcome(current_rating, opponent_rating)
\*     new_rating += self.k_factor * (result - expected)
RECURSIVE EloLoop(_, _, _, _)
EloLoop(k_factor, current_rating, new_rating, outcomes) ==
    IF outcomes = << >> THEN new_rating
    ELSE EloLoop(k_factor, current_rating,
                 new_rating + RoundDiv(k_factor * (Head(outcomes)[2]
                                  - EloExpectedOutcome(current_rating, Head(outcomes)[1])),
                              One \div RatingUnit),
                 Tail(outcomes))

\* EloRatingSystem.calculate_rating(current_rating, outcomes)
EloCalculateRating(k_factor, current_rating, outcomes) ==
    IF outcomes = << >> THEN current_rating
    ELSE EloLoop(k_factor, current_rating, current_rating, outcomes)

\* ------------------------------------------------------------------------
\* Points-based (rating_systems/points_based.py)
\* Point values are stored as round(value * PointUnit).  A list is an object
\* of the heap and is held by reference: heap[ref] is its contents.  A
\* rating state is either the tuple (total_points, points_history) or a bare
\* total; an Optional attribute is << >> for None and <<v>> for the value v.
\* ------------------------------------------------------------------------

\* 1.0 point: one decimal digit.
PointUnit == 2 * 5

\* The tuple (total_points, points_history).
PointsState(total_points, points_history) ==
    [is_tuple |-> TRUE, total_points |-> total_points, points_history |-> points_history]

\* A bare total passed as current_rating.
PointsBareTotal(total_points) == [is_tuple |-> FALSE, total_points |-> total_points]

\* int(score): truncation toward zero.
PointsInt(score) == Sgn(score) * (Abs(score) \div PointUnit)

\* The rank lookup without its lower limit: a negative index counts from
\* the end of the list.
PointsRankLookupWrapping(rank_points, rank) ==
    IF 0 <= rank /\ rank < Len(rank_points) THEN rank_points[rank + 1]
    ELSE IF -Len(rank_points) <= rank /\ rank < 0 THEN rank_points[Len(rank_points) + rank + 1]
    ELSE 0

\* The rank lookup of one score:
\*     if 0 <= rank < len(self.rank_points): self.rank_points[rank] else 0.0
PointsRankLookup(rank_points, rank) ==
    IF 0 <= rank /\ rank < Len(rank_points) THEN rank_points[rank + 1] ELSE 0

\* if self.rank_points is not None: every score becomes the points of the
\* rank int(score) - 1.
PointsApplyRank(config, processed_outcomes) ==
    IF config.rank_points # << >>
    THEN [i \in 1..Len(processed_outcomes) |->
             PointsRankLookup(config.rank_points[1], PointsInt(processed_outcomes[i]) - 1)]
    ELSE processed_outcomes

\* The bonus rule with the bonus counted in before the comparison.
PointsApplyBonusCountedFirst(config, processed_outcomes) ==
    IF config.bonus_threshold # << >>
    THEN [i \in 1..Len(processed_outcomes) |->
             IF processed_outcomes[i] + config.bonus_points > config.bonus_threshold[1]
             THEN processed_outcomes[i] + config.bonus_points
             ELSE processed_outcomes[i]]
    ELSE processed_outcomes

\* The bonus rule with the comparison score >= self.bonus_threshold.
PointsApplyBonusAtThreshold(config, processed_outcomes) ==
    IF config.bonus_threshold # << >>
    THEN [i \in 1..Len(processed_outcomes) |->
             IF processed_outcomes[i] >= config.bonus_threshold[1]
             THEN processed_outcomes[i] + config.bonus_points
             ELSE processed_outcomes[i]]
    ELSE processed_outcomes

\* if self.bonus_threshold is not None:
\*     score + self.bonus_points if score > self.bonus_threshold else score
PointsApplyBonus(config, processed_outcomes) ==
    IF config.bonus_threshold # << >>
    THEN [i \in 1..Len(processed_outcomes) |->
             IF processed_outcomes[i] > config.bonus_threshold[1]
             THEN processed_outcomes[i] + config.bonus_points
             ELSE processed_outcomes[i]]
    ELSE processed_outcomes

\* sum(processed_outcomes)
RECURSIVE PointsSum(_)
PointsSum(processed_outcomes) ==
    IF processed_outcomes = << >> THEN 0
    ELSE Head(processed_outcomes) + PointsSum(Tail(processed_outcomes))

\* The unpacking of current_rating.  A bare total gets a new empty list as
\* its history.
PointsUnpack(h, current_rating) ==
    IF current_rating.is_tuple
    THEN [heap |-> h, total_points |-> current_rating.total_points,
          points_history |-> current_rating.points_history]
    ELSE [heap |-> Append(h, << >>), total_points |-> current_rating.total_points,
          points_history |-> Len(h) + 1]

\* The history extended in place: points_history.extend(original_outcomes).
PointsHistoryExtendedInPlace(h, points_history, original_outcomes) ==
    [heap |-> [h EXCEPT ![points_history] = @ \o original_outcomes], ref |-> points_history]

\* updated_history = points_history + original_outcomes: the concatenation
\* is a new list object.
PointsUpdatedHistory(h, points_history, original_outcomes) ==
    [heap |-> Append(h, h[points_history] \o original_outcomes), ref |-> Len(h) + 1]

\* return (new_total_points, updated_history)
PointsReturn(new_total_points, updated) ==
    [heap |-> updated.heap, state |-> PointsState(new_total_points, updated.ref)]

\* calculate_rating after the unpacking, with an early return that hands
\* back the default points instead of the total.
PointsAfterUnpackDefaultTotal(config, u, outcomes) ==
    IF u.heap[outcomes] = << >>
    THEN [heap |-> u.heap, state |-> PointsState(config.default_points, u.points_history)]
    ELSE PointsReturn(
             u.total_points
                 + PointsSum(PointsApplyBonus(config, PointsApplyRank(config, u.heap[outcomes]))),
             PointsUpdatedHistory(u.heap, u.points_history, u.heap[outcomes]))

\* calculate_rating after the unpacking, with the new total formed from the
\* default points instead of the total passed in.
PointsAfterUnpackFromDefault(config, u, outcomes) ==
    IF u.heap[outcomes] = << >>
    THEN [heap |-> u.heap, state |-> PointsState(u.total_points, u.points_history)]
    ELSE PointsReturn(
             config.default_points
                 + PointsSum(PointsApplyBonus(config, PointsApplyRank(config, u.heap[outcomes]))),
             PointsUpdatedHistory(u.heap, u.points_history, u.heap[outcomes]))

\* calculate_rating after the unpacking, with an early return that hands
\* back a copy of the history list.
PointsAfterUnpackCopiedHistory(config, u, outcomes) ==
    IF u.heap[outcomes] = << >>
    THEN PointsReturn(u.total_points,
                      PointsUpdatedHistory(u.heap, u.points_history, << >>))
    ELSE PointsReturn(
             u.total_points
                 + PointsSum(PointsApplyBonus(config, PointsApplyRank(config, u.heap[outcomes]))),
             PointsUpdatedHistory(u.heap, u.points_history, u.heap[outcomes]))

\* calculate_rating after the unpacking: the early return on no outcomes,
\* which hands back the history list itself, else the transforms, the sum
\* and the new history.  original_outcomes and processed_outcomes are copies
\* of the outcomes list that do not outlive the call.
PointsAfterUnpack(config, u, outcomes) ==
    IF u.heap[outcomes] = << >>
    THEN [heap |-> u.heap, state |-> PointsState(u.total_points, u.points_history)]
    ELSE PointsReturn(
             u.total_points
                 + PointsSum(PointsApplyBonus(config, PointsApplyRank(config, u.heap[outcomes]))),
             PointsUpdatedHistory(u.heap, u.points_history, u.heap[outcomes]))

\* PointsBasedRankingSystem.calculate_rating(current_rating, outcomes), with
\* outcomes a reference into the heap h; the result is the heap after the
\* call and the returned state.
PointsCalculateRating(config, h, current_rating, outcomes) ==
    PointsAfterUnpack(config, PointsUnpack(h, current_rating), outcomes)

\* get_default_rating: (self._default_points, []), the new list allocated in
\* the heap h.
PointsGetDefaultRating(config, h) ==
    [heap |-> Append(h, << >>), state |-> PointsState(config.default_points, Len(h) + 1)]

\* point_diff / 100.0 on the unit scale, for a point_diff of one PointUnit.
PointsArgUnit == One \div (100 * PointUnit)

\* The history half of the unpacking in expected_outcome: the list of a
\* tuple, [] for a bare total.
PointsHistoryOf(h, rating) ==
    IF rating.is_tuple THEN h[rating.points_history] ELSE << >>

\* history[-self.weekly_average_window:]
PointsRecent(weekly_average_window, history) ==
    SubSeq(history, Max(1, Len(history) - weekly_average_window + 1), Len(history))

\* sum(recent) / len(recent) * 10, in units of PointsArgUnit.
PointsAverageTimes10(recent) ==
    RoundDiv(PointsSum(recent) * 10 * PointsArgUnit, Len(recent))

\* avg_recent * 10, with recent = [total / 10] for an empty history.
PointsRecentTimes10(config, total, history) ==
    IF history # << >>
    THEN PointsAverageTimes10(PointsRecent(config.weekly_average_window, history))
    ELSE total * PointsArgUnit

\* blended = (1 - w) * total + w * avg_recent * 10, in units of
\* PointsArgUnit.
PointsBlended(config, total, history) ==
    FMul(One - config.points_history_weight, total * PointsArgUnit)
        + FMul(config.points_history_weight, PointsRecentTimes10(config, total, history))

\* PointsBasedRankingSystem.expected_outcome(rating1, rating2), the ratings
\* held in the heap h.
PointsExpectedOutcome(config, h, rating1, rating2) ==
    IF config.points_history_weight = 0
    THEN Logistic((rating1.total_points - rating2.total_points) * PointsArgUnit)
    ELSE Logistic(PointsBlended(config, rating1.total_points, PointsHistoryOf(h, rating1))
                      - PointsBlended(config, rating2.total_points, PointsHistoryOf(h, rating2)))

\* ------------------------------------------------------------------------
\* The caller: it holds one algorithm instance and one participant's rating
\* state, and feeds each returned state into the next call.
\* ------------------------------------------------------------------------

VARIABLES
    sys,    \* the algorithm of the instance: "elo", "glicko2" or "points"
    cfg,    \* the instance's configuration (the attributes set by __init__)
    start,  \* the rating state the caller began with
    cur,    \* the rating state the caller holds now
    prev,   \* the rating state passed into the last call
    outs,   \* the outcomes list passed into the last call (a heap reference)
    heap,   \* the list objects: heap[i] is the contents of list object i
    before, \* the heap at the entry of the last call
    fed,    \* every outcome value passed in so far, in call order
    calls,  \* the number of calculate_rating calls made
    asked,  \* <<rating1, rating2>> of the expected_outcome call made since
            \* the last calculate_rating call, << >> when there was none
    answer, \* what that expected_outcome call returned
    registry,  \* RatingSystemRegistry._registry: the <<name, class>> items of
               \* the dict, in insertion order
    instances, \* the rating system objects constructed so far
    reply,     \* the last registry operation and what it returned or raised
    resolved,  \* whether a resolution of a name has been made
    regs,      \* every register call made so far, as <<name, class>>
    ops,       \* the number of registry operations made
    threads,   \* what each caller of the shared instance is doing
    tracked    \* RatingHistoryVisualizer.history: the <<name, series>> items
               \* of the dict, in insertion order

vars ==
    <<sys, cfg, start, cur, prev, outs, heap, before, fed, calls, asked, answer,
      registry, instances, reply, resolved, regs, ops, threads, tracked>>

\* The callers that share one instance.
Callers == {"a", "b"}

\* The registry before any use, with no instance constructed through it.
RegistryUnused ==
    /\ registry = << >>
    /\ instances = << >>
    /\ reply = [op |-> "none"]
    /\ resolved = FALSE
    /\ regs = << >>
    /\ ops = 0

\* No caller is inside a call on a shared instance.
NoThreads == threads = [c \in Callers |-> [pc |-> "idle"]]

\* No visualizer has tracked a rating: self.history = {}
NothingTracked == tracked = << >>

\* A calculate_rating call of the single caller: it touches neither the
\* registry nor the shared-instance callers, and the expected_outcome call
\* remembered is the one made since this call.
SingleCallerCall ==
    /\ asked' = << >>
    /\ answer' = 0
    /\ UNCHANGED <<registry, instances, reply, resolved, regs, ops, threads, tracked>>

\* An expected_outcome call of the single caller: it returns a number and
\* leaves every rating state, list and attribute as it was.
SingleCallerQuery ==
    UNCHANGED <<sys, cfg, start, cur, prev, outs, heap, before, fed, calls,
                registry, instances, reply, resolved, regs, ops, threads, tracked>>

\* The number of calculate_rating calls a behaviour makes.
MaxCalls == 2

\* ------------------------------------------------------------------------
\* Glicko-2 behaviours
\* The two orders in which a caller can pass its own rating and another
\* one to expected_outcome.
BothOrders(mine, other) == { <<mine, other>>, <<other, mine>> }

\* ------------------------------------------------------------------------

GlickoState(rating, rd, vol) == <<rating * RatingUnit, rd * RatingUnit, vol>>

GlickoOutcome(opp_r, opp_rd, result) == <<opp_r * RatingUnit, opp_rd * RatingUnit, result>>

Win == One

Draw == One \div 2

Loss == 0

\* The rating states a participant starts from: the default state, the
\* state of the Glicko-2 reference example, a well-established player with
\* a high volatility, one with a low volatility, and a player far above
\* every opponent whose volatility lies outside the band.
GlickoStarts ==
    { GlickoDefaultRating,
      GlickoState(1500, 200, 60000),
      GlickoState(1500, 50, 90000),
      GlickoState(1500, 30, 10500),
      GlickoState(8000, 200, 200000) }

\* The values of tau the instance is constructed with.
GlickoTaus == { One \div 2, (12 * One) \div 10 }

\* The outcome lists of one call.
GlickoBatches ==
    { << GlickoOutcome(1400, 30, Win) >>,
      << GlickoOutcome(1500, 350, Draw) >>,
      << GlickoOutcome(1600, 30, Loss) >>,
      << GlickoOutcome(3500, 30, Loss) >>,
      << GlickoOutcome(2500, 30, Win), GlickoOutcome(2500, 30, Win) >>,
      << GlickoOutcome(1400, 30, Win), GlickoOutcome(1550, 100, Loss),
         GlickoOutcome(1700, 300, Loss) >> }

\* The arguments of math.exp the fixed-point scale resolves: up to
\* ExpRange the logistic and E * (1 - E) stay above one unit, and from
\* FloatOne on the float E is exactly 1.0, as here.  In between the float
\* keeps a nonzero E * (1 - E) that the unit scale would round to zero.
ExpRange == 12 * One

FloatOne == 37 * One

Representable(x) == Abs(x) <= ExpRange \/ x >= FloatOne

GlickoRepresentable(state, outcomes) ==
    \A i \in 1..Len(outcomes) : Representable(ExpArg(ToMu(state[1]), outcomes[i]))

\* The unit scale resolves the rating update: a nonzero delta_sum moves mu
\* by at least one unit, as it moves the float mu.
GlickoMuResolved(mu, phi, vol, v_sum, delta_sum) ==
    \/ v_sum = 0
    \/ delta_sum = 0
    \/ NewMu(mu, NewPhi(PhiStar(phi, ClampVol(AdjustVol(vol, Unexpected(delta_sum, phi, v_sum)))),
                        v_sum), delta_sum) # mu

GlickoResolved(state, outcomes) ==
    GlickoMuResolved(ToMu(state[1]), ToPhi(state[2]), state[3],
                     VSum(ToMu(state[1]), outcomes), DeltaSum(ToMu(state[1]), outcomes))

InitGlicko ==
    /\ sys = "glicko2"
    /\ cfg \in { [tau |-> t] : t \in GlickoTaus }
    /\ start \in GlickoStarts
    /\ cur = start
    /\ prev = start
    /\ outs = 0
    /\ heap = << >>
    /\ before = << >>
    /\ fed = << >>
    /\ calls = 0
    /\ asked = << >>
    /\ answer = 0
    /\ RegistryUnused
    /\ NoThreads
    /\ NothingTracked

\* The caller builds an outcomes list and calls calculate_rating with the
\* state it holds.
GlickoRated ==
    /\ sys = "glicko2"
    /\ calls < MaxCalls
    /\ \E b \in GlickoBatches :
         /\ GlickoRepresentable(cur, b)
         /\ GlickoResolved(cur, b)
         /\ before' = Append(heap, b)
         /\ outs' = Len(heap) + 1
         /\ cur' = GlickoCalculateRating(cur, b)
         /\ fed' = fed \o b
    /\ heap' = before'
    /\ prev' = cur
    /\ calls' = calls + 1
    /\ UNCHANGED <<sys, cfg, start>>
    /\ SingleCallerCall

\* The (rating, rd) tuples expected_outcome is asked about, next to the
\* caller's own.
GlickoOpponents ==
    { <<o[1] * RatingUnit, o[2] * RatingUnit>> :
        o \in { <<1500, 50>>, <<1700, 300>>, <<1400, 30>>, <<1500, 350>>, <<1700, 50>> } }

\* The argument of math.exp in expected_outcome, negated.
GlickoExpectedArg(rating1, rating2) ==
    FMul(G(ToPhi(rating2[2])), ToMu(rating1[1]) - ToMu(rating2[1]))

\* expected_outcome(rating1, rating2), asked for the caller's (rating, rd)
\* and another one, in either order.
GlickoExpected ==
    /\ sys = "glicko2"
    /\ asked = << >>
    /\ \E o \in GlickoOpponents \cup { <<cur[1], cur[2]>> } :
         \E q \in BothOrders(<<cur[1], cur[2]>>, o) :
            /\ Abs(GlickoExpectedArg(q[1], q[2])) <= ExpRange
            /\ Abs(GlickoExpectedArg(q[2], q[1])) <= ExpRange
            /\ asked' = q
            /\ answer' = GlickoExpectedOutcome(q[1], q[2])
    /\ SingleCallerQuery

\* A rating period without matches: calculate_rating(state, []).
GlickoInactive ==
    /\ sys = "glicko2"
    /\ calls < MaxCalls
    /\ before' = Append(heap, << >>)
    /\ outs' = Len(heap) + 1
    /\ cur' = GlickoCalculateRating(cur, << >>)
    /\ heap' = before'
    /\ prev' = cur
    /\ calls' = calls + 1
    /\ UNCHANGED <<sys, cfg, start, fed>>
    /\ SingleCallerCall

\* ------------------------------------------------------------------------
\* Elo behaviours
\* ------------------------------------------------------------------------

\* The ratings expected_outcome is asked about, next to the caller's own.
EloOpponents == { r * RatingUnit : r \in {1000, 1400, 1500, 1600, 2000} }

\* expected_outcome(rating1, rating2), asked for the caller's rating and
\* another one, in either order.
EloExpected ==
    /\ sys = "elo"
    /\ asked = << >>
    /\ \E o \in EloOpponents \cup {cur} : \E q \in BothOrders(cur, o) :
         /\ asked' = q
         /\ answer' = EloExpectedOutcome(q[1], q[2])
    /\ SingleCallerQuery

EloOutcome(opponent_rating, result) == <<opponent_rating * RatingUnit, result>>

\* The instances: EloRatingSystem(), EloRatingSystem(k_factor=24).
EloConfigs ==
    { [k_factor |-> k, default_rating |-> 1500 * RatingUnit] : k \in {32, 24} }

\* The ratings a participant starts from: get_default_rating() and two others.
EloStarts(config) == { config.default_rating, 1400 * RatingUnit, 1720 * RatingUnit }

\* The outcome lists of one call: single games against an equal, a stronger
\* and a weaker opponent, a repeated game, a pair in both orders, and the
\* three games of test_calculate_rating_multiple_outcomes.
EloBatches ==
    { << EloOutcome(1500, Win) >>,
      << EloOutcome(1500, Loss) >>,
      << EloOutcome(1500, Draw) >>,
      << EloOutcome(1600, Draw) >>,
      << EloOutcome(1300, Loss) >>,
      << EloOutcome(1500, Win), EloOutcome(1500, Win) >>,
      << EloOutcome(1400, Win), EloOutcome(1600, Loss) >>,
      << EloOutcome(1600, Loss), EloOutcome(1400, Win) >>,
      << EloOutcome(1600, Win), EloOutcome(1400, Loss), EloOutcome(1500, Draw) >> }

InitElo ==
    /\ sys = "elo"
    /\ cfg \in EloConfigs
    /\ start \in EloStarts(cfg)
    /\ cur = start
    /\ prev = start
    /\ outs = 0
    /\ heap = << >>
    /\ before = << >>
    /\ fed = << >>
    /\ calls = 0
    /\ asked = << >>
    /\ answer = 0
    /\ RegistryUnused
    /\ NoThreads
    /\ NothingTracked

\* The caller builds an outcomes list and calls calculate_rating with the
\* rating it holds.
EloRated ==
    /\ sys = "elo"
    /\ calls < MaxCalls
    /\ \E b \in EloBatches :
         /\ before' = Append(heap, b)
         /\ outs' = Len(heap) + 1
         /\ cur' = EloCalculateRating(cfg.k_factor, cur, b)
         /\ fed' = fed \o b
    /\ heap' = before'
    /\ prev' = cur
    /\ calls' = calls + 1
    /\ UNCHANGED <<sys, cfg, start>>
    /\ SingleCallerCall

\* calculate_rating(rating, [])
EloNoOutcomes ==
    /\ sys = "elo"
    /\ calls < MaxCalls
    /\ before' = Append(heap, << >>)
    /\ outs' = Len(heap) + 1
    /\ cur' = EloCalculateRating(cfg.k_factor, cur, << >>)
    /\ heap' = before'
    /\ prev' = cur
    /\ calls' = calls + 1
    /\ UNCHANGED <<sys, cfg, start, fed>>
    /\ SingleCallerCall

\* ------------------------------------------------------------------------
\* Points-based behaviours
\* ------------------------------------------------------------------------

Points(p) == p * PointUnit

\* The attributes of an instance that has neither rank points nor a bonus.
PointsPlain(default_points, points_history_weight) ==
    [default_points |-> default_points, points_history_weight |-> points_history_weight,
     rank_points |-> << >>, weekly_average_window |-> 3,
     bonus_threshold |-> << >>, bonus_points |-> 0]

\* The instances: the default one, one with rank points, one with a bonus
\* and nonzero default points, one with rank points and a bonus that the
\* first rank earns, and one that weighs recent history by 0.5.
PointsConfigs ==
    { PointsPlain(0, 0),
      [PointsPlain(0, 0) EXCEPT
          !.rank_points = << <<Points(10), Points(8), Points(6), Points(4), Points(2)>> >>],
      [PointsPlain(Points(50), 0) EXCEPT
          !.bonus_threshold = << Points(100) >>, !.bonus_points = Points(10)],
      [PointsPlain(0, 0) EXCEPT
          !.rank_points = << <<Points(25), Points(18), Points(15)>> >>,
          !.bonus_threshold = << Points(20) >>, !.bonus_points = Points(5)],
      PointsPlain(0, One \div 2) }

\* The states a participant starts from, each with the heap that holds its
\* history: get_default_rating(), a bare total, and a state with a history.
PointsStarts(config) ==
    { PointsGetDefaultRating(config, << >>),
      [heap |-> << >>, state |-> PointsBareTotal(Points(20))],
      [heap |-> << <<Points(10), Points(20)>> >>, state |-> PointsState(Points(30), 1)] }

\* The outcome lists of one call: raw scores, ranks inside and outside the
\* rank table, a fractional and a negative score, and scores at, above and
\* below the bonus threshold.
PointsBatches ==
    { << Points(10) >>,
      << Points(1), Points(2) >>,
      << 37 >>,
      << Points(150), Points(50) >>,
      << Points(100) >>,
      << 0, Points(7) >>,
      << -15 >>,
      << Points(3), Points(1), Points(1) >>,
      << Points(1), Points(3), Points(2) >>,
      << Points(-1), Points(5), Points(6) >> }

\* The value of a rating state: the total and the contents of the history.
PointsValue(h, state) ==
    IF state.is_tuple THEN <<state.total_points, h[state.points_history]>>
    ELSE <<state.total_points>>

InitPoints ==
    /\ sys = "points"
    /\ cfg \in PointsConfigs
    /\ \E s \in PointsStarts(cfg) :
         /\ heap = s.heap
         /\ cur = s.state
         /\ prev = s.state
         /\ start = PointsValue(s.heap, s.state)
    /\ outs = 0
    /\ before = heap
    /\ fed = << >>
    /\ calls = 0
    /\ asked = << >>
    /\ answer = 0
    /\ RegistryUnused
    /\ NoThreads
    /\ NothingTracked

\* The caller builds an outcomes list and calls calculate_rating with the
\* state it holds.
PointsRated ==
    /\ sys = "points"
    /\ calls < MaxCalls
    /\ \E b \in PointsBatches :
         /\ before' = Append(heap, b)
         /\ outs' = Len(heap) + 1
         /\ fed' = fed \o b
         /\ \E r \in { PointsCalculateRating(cfg, Append(heap, b), cur, Len(heap) + 1) } :
              heap' = r.heap /\ cur' = r.state
    /\ prev' = cur
    /\ calls' = calls + 1
    /\ UNCHANGED <<sys, cfg, start>>
    /\ SingleCallerCall

\* calculate_rating(state, [])
PointsNoOutcomes ==
    /\ sys = "points"
    /\ calls < MaxCalls
    /\ before' = Append(heap, << >>)
    /\ outs' = Len(heap) + 1
    /\ \E r \in { PointsCalculateRating(cfg, Append(heap, << >>), cur, Len(heap) + 1) } :
         heap' = r.heap /\ cur' = r.state
    /\ prev' = cur
    /\ calls' = calls + 1
    /\ UNCHANGED <<sys, cfg, start, fed>>
    /\ SingleCallerCall

\* ------------------------------------------------------------------------
\* The specification: one instance of one algorithm and its caller.
\* The rating a value stands for, its history held by list object ref.
PointsOfValue(v, ref) ==
    IF Len(v) = 2 THEN PointsState(v[1], ref) ELSE PointsBareTotal(v[1])

\* The contents of the history list of a value.
PointsListOfValue(v) == IF Len(v) = 2 THEN v[2] ELSE << >>

\* expected_outcome called with two ratings given by value, each tuple with
\* a history list of its own.
PointsExpectedOfValues(config, v1, v2) ==
    PointsExpectedOutcome(config, << PointsListOfValue(v1), PointsListOfValue(v2) >>,
                          PointsOfValue(v1, 1), PointsOfValue(v2, 2))

\* The ratings expected_outcome is asked about, next to the caller's own: a
\* bare total, tuples with an empty history, with a history as long as the
\* window and with a longer one.
PointsOpponents ==
    { << Points(100) >>,
      << Points(30), << >> >>,
      << Points(120), << Points(20), Points(30), Points(40) >> >>,
      << Points(100), << Points(70), Points(2), Points(3), 45 >> >>,
      << Points(500), << Points(80), Points(90), Points(100) >> >> }

\* expected_outcome(rating1, rating2), asked for the caller's rating and
\* another one, in either order.
PointsExpected ==
    /\ sys = "points"
    /\ asked = << >>
    /\ \E o \in PointsOpponents \cup { PointsValue(heap, cur) } :
         \E q \in BothOrders(PointsValue(heap, cur), o) :
            /\ asked' = q
            /\ answer' = PointsExpectedOfValues(cfg, q[1], q[2])
    /\ SingleCallerQuery

\* ------------------------------------------------------------------------
\* The registry (rating_systems/registry.py)
\* _registry is a dict: here the sequence of its <<key, class>> items in
\* insertion order.  None is << >> and a value v that may be None is <<v>>.

\* The names passed to register and to the lookups, and str.lower() of each.
RegisteredNames == {"elo", "Elo", "glicko2"}

LookupNames == {"ELO", "glicko2", "trueskill"}

Lower(name) ==
    CASE name \in {"elo", "Elo", "ELO"} -> "elo"
      [] name \in {"glicko2", "Glicko2"} -> "glicko2"
      [] OTHER -> name

\* The classes that are registered.
Classes == {"EloRatingSystem", "Glicko2RatingSystem"}

\* The keyword arguments passed on to a constructor.
KeywordArguments == { << >>, [k_factor |-> -5], [tau |-> 0] }

\* The value of a parameter: the keyword argument, else the default.
KwArg(kwargs, name, default) == IF name \in DOMAIN kwargs THEN kwargs[name] ELSE default

\* The parameters of each __init__.
Parameters(system_cls) ==
    IF system_cls = "EloRatingSystem" THEN {"k_factor", "default_rating"} ELSE {"tau"}

\* EloRatingSystem.__init__ and Glicko2RatingSystem.__init__: the attributes
\* are the arguments as given.
EloInit(kwargs) ==
    [cls |-> "EloRatingSystem", k_factor |-> KwArg(kwargs, "k_factor", 32),
     default_rating |-> KwArg(kwargs, "default_rating", DefaultRating)]

Glicko2Init(kwargs) ==
    [cls |-> "Glicko2RatingSystem", tau |-> KwArg(kwargs, "tau", One \div 2)]

\* system_cls(**kwargs): the new object, or the TypeError of a keyword the
\* constructor does not take.
Construct(system_cls, kwargs) ==
    IF ~(DOMAIN kwargs \subseteq Parameters(system_cls)) THEN [raised |-> "TypeError"]
    ELSE IF system_cls = "EloRatingSystem" THEN [raised |-> "", object |-> EloInit(kwargs)]
    ELSE [raised |-> "", object |-> Glicko2Init(kwargs)]

\* list(cls._registry.keys())
RegistryKeys(reg) == [i \in 1..Len(reg) |-> reg[i][1]]

\* A dict assignment that keeps the value a key already has.
RegistrySetDefault(reg, key, system_cls) ==
    IF \E i \in 1..Len(reg) : reg[i][1] = key THEN reg
    ELSE Append(reg, <<key, system_cls>>)

\* cls._registry[key] = system_cls
RegistrySet(reg, key, system_cls) ==
    IF \E i \in 1..Len(reg) : reg[i][1] = key
    THEN [i \in 1..Len(reg) |-> IF reg[i][1] = key THEN <<key, system_cls>> ELSE reg[i]]
    ELSE Append(reg, <<key, system_cls>>)

\* A lookup that falls back to the first registered class.
RegistryLookupOrFirst(reg, key) ==
    IF \E i \in 1..Len(reg) : reg[i][1] = key
    THEN << reg[CHOOSE i \in 1..Len(reg) : reg[i][1] = key][2] >>
    ELSE IF reg # << >> THEN << reg[1][2] >> ELSE << >>

\* cls._registry.get(key)
RegistryLookup(reg, key) ==
    IF \E i \in 1..Len(reg) : reg[i][1] = key
    THEN << reg[CHOOSE i \in 1..Len(reg) : reg[i][1] = key][2] >>
    ELSE << >>

\* What an operation leaves in reply.
Reply(op, name, kwargs, result, error) ==
    [op |-> op, name |-> name, kwargs |-> kwargs, result |-> result, error |-> error]

\* RatingSystemRegistry.get after the lookup: the objects that exist
\* afterwards, the value returned (the position of the new object among
\* them, or None) and the exception raised.
RegistryGetFound(insts, found, made) ==
    IF found = << >> THEN [instances |-> insts, result |-> << >>, error |-> << >>]
    ELSE IF made.raised # ""
    THEN [instances |-> insts, result |-> << >>, error |-> << [type |-> made.raised] >>]
    ELSE [instances |-> Append(insts, made.object), result |-> << Len(insts) + 1 >>,
          error |-> << >>]

\* RatingSystemRegistry.get(name, **kwargs)
RegistryGet(reg, insts, name, kwargs) ==
    RegistryGetFound(insts, RegistryLookup(reg, Lower(name)),
        IF RegistryLookup(reg, Lower(name)) = << >> THEN [raised |-> ""]
        ELSE Construct(RegistryLookup(reg, Lower(name))[1], kwargs))

\* The ValueError of get_rating_system: its message is made of the
\* requested name as given and the registered names joined in order.
UnsupportedError(reg, system_name) ==
    [type |-> "ValueError", unsupported |-> system_name, available |-> RegistryKeys(reg)]

\* get_rating_system after the call of get.
GetRatingSystemAfterGet(reg, system_name, got) ==
    IF got.result = << >> /\ got.error = << >>
    THEN [got EXCEPT !.error = << UnsupportedError(reg, system_name) >>]
    ELSE got

\* The number of registry operations a behaviour makes.
MaxOps == 3

\* The rating variables of a behaviour that only uses the registry.
NoRatingCalls ==
    /\ sys = "none" /\ cfg = << >> /\ start = 0 /\ cur = 0 /\ prev = 0
    /\ outs = 0 /\ heap = << >> /\ before = << >> /\ fed = << >> /\ calls = 0
    /\ asked = << >> /\ answer = 0

RegistryOperation ==
    /\ ops < MaxOps
    /\ ops' = ops + 1
    /\ UNCHANGED <<sys, cfg, start, cur, prev, outs, heap, before, fed, calls,
                   asked, answer, threads, tracked>>

\* RatingSystemRegistry.register(name, system_cls)
Register ==
    /\ RegistryOperation
    /\ \E name \in RegisteredNames, system_cls \in Classes :
         /\ registry' = RegistrySet(registry, Lower(name), system_cls)
         /\ regs' = Append(regs, <<name, system_cls>>)
         /\ reply' = Reply("register", name, << system_cls >>, << >>, << >>)
    /\ UNCHANGED <<instances, resolved>>

\* RatingSystemRegistry.get(name, **kwargs)
Get ==
    /\ RegistryOperation
    /\ \E name \in LookupNames, kwargs \in KeywordArguments :
         \E got \in { RegistryGet(registry, instances, name, kwargs) } :
            /\ instances' = got.instances
            /\ reply' = Reply("get", name, kwargs, got.result, got.error)
    /\ resolved' = TRUE
    /\ UNCHANGED <<registry, regs>>

\* get_rating_system(system_name, **kwargs)
GetRatingSystem ==
    /\ RegistryOperation
    /\ \E system_name \in LookupNames, kwargs \in KeywordArguments :
         \E got \in { GetRatingSystemAfterGet(registry, system_name,
                          RegistryGet(registry, instances, system_name, kwargs)) } :
            /\ instances' = got.instances
            /\ reply' = Reply("get_rating_system", system_name, kwargs, got.result, got.error)
    /\ resolved' = TRUE
    /\ UNCHANGED <<registry, regs>>

\* RatingSystemRegistry.list_available()
ListAvailable ==
    /\ RegistryOperation
    /\ reply' = Reply("list_available", "", << >>, RegistryKeys(registry), << >>)
    /\ resolved' = TRUE
    /\ UNCHANGED <<registry, regs, instances>>

InitRegistry == NoRatingCalls /\ RegistryUnused /\ NoThreads /\ NothingTracked

NextRegistry == Register \/ Get \/ GetRatingSystem \/ ListAvailable

SpecRegistry == InitRegistry /\ [][NextRegistry]_vars

\* ------------------------------------------------------------------------
\* Callers that share one instance
\* Each caller runs its own call: the arguments and the locals of a call
\* belong to the caller, the attributes (cfg) to the instance.  A
\* calculate_rating call advances one pass at a time, so that the passes of
\* two calls interleave; Points-based makes one pass for the rank table and
\* one for the bonus.  A Points rating is passed by value, <<total>> or
\* <<total, history>>.

\* The number of calls the callers begin.
MaxSharedCalls == 2

\* EloRatingSystem.adjust_k_factor(rating)
AdjustKFactor(rating) ==
    IF rating < 2100 * RatingUnit THEN 32
    ELSE IF rating < 2400 * RatingUnit THEN 24 ELSE 16

\* A pass that keeps the K-factor of its participant on the instance.
InstanceKeepsKFactor(system, config, current_rating) ==
    IF system = "elo" THEN [config EXCEPT !.k_factor = AdjustKFactor(current_rating)]
    ELSE config

\* The attributes of the instance after a pass of calculate_rating: no
\* statement of the method assigns to self.
InstanceAfterPass(system, config, current_rating) == config

\* The arguments the callers pass to calculate_rating.
SharedArguments(system, config) ==
    IF system = "elo"
    THEN { config.default_rating, 1720 * RatingUnit }
             \X { << >>,
                  << EloOutcome(1400, Win), EloOutcome(1600, Loss) >>,
                  << EloOutcome(1600, Win), EloOutcome(1400, Loss), EloOutcome(1500, Draw) >> }
    ELSE IF system = "glicko2"
    THEN { GlickoState(1500, 200, 60000), GlickoState(1500, 50, 90000) }
             \X { << >>,
                  << GlickoOutcome(1400, 30, Win) >>,
                  << GlickoOutcome(1400, 30, Win), GlickoOutcome(1550, 100, Loss),
                     GlickoOutcome(1700, 300, Loss) >> }
    ELSE { << Points(20) >>, << Points(30), << Points(10), Points(20) >> >> }
             \X { << >>,
                  << Points(150), Points(50) >>,
                  << Points(3), Points(1), Points(1) >> }

\* The rating pairs the callers pass to expected_outcome.
SharedQuestions(system, config) ==
    IF system = "elo" THEN { << config.default_rating, 1720 * RatingUnit >> }
    ELSE IF system = "glicko2"
    THEN { << <<1500 * RatingUnit, 200 * RatingUnit>>, <<1700 * RatingUnit, 300 * RatingUnit>> >> }
    ELSE { << << Points(30), << Points(10), Points(20) >> >>, << Points(20) >> >>,
           << << Points(120), << Points(20), Points(30), Points(40) >> >>,
              << Points(100), << Points(70), Points(2), Points(3), 45 >> >> >> }

\* The number of passes of a calculate_rating call.
Passes(system, outcomes) == IF system = "points" THEN 2 ELSE Len(outcomes)

\* The locals at the start of the passes: new_rating for Elo, v_sum and
\* delta_sum for Glicko-2, processed_outcomes for Points-based.
FirstLocals(system, args) ==
    IF system = "elo" THEN args[1]
    ELSE IF system = "glicko2" THEN <<0, 0>>
    ELSE args[2]

\* The locals after pass i.
PassLocals(system, config, args, i, acc) ==
    IF system = "elo"
    THEN acc + EloCalculateRatingChange(config.k_factor, args[1], args[2][i][1], args[2][i][2])
    ELSE IF system = "glicko2"
    THEN << acc[1] + VTerm(G(ToPhi(args[2][i][2])), ExpectedE(ToMu(args[1][1]), args[2][i])),
            acc[2] + DeltaTerm(ToMu(args[1][1]), args[2][i]) >>
    ELSE IF i = 1 THEN PointsApplyRank(config, acc)
    ELSE PointsApplyBonus(config, acc)

\* What calculate_rating returns after its passes.
ReturnAfterPasses(system, args, acc) ==
    IF system = "elo" THEN acc
    ELSE IF system = "glicko2"
    THEN GlickoAfterLoop(args[1][1], args[1][2], args[1][3],
                         ToMu(args[1][1]), ToPhi(args[1][2]), acc[1], acc[2])
    ELSE << args[1][1] + PointsSum(acc), PointsListOfValue(args[1]) \o args[2] >>

\* What calculate_rating returns for an empty outcomes list.
ReturnWithoutPasses(system, args) ==
    IF system = "elo" THEN args[1]
    ELSE IF system = "glicko2" THEN GlickoCalculateRating(args[1], << >>)
    ELSE << args[1][1], PointsListOfValue(args[1]) >>

\* What expected_outcome returns.
SharedExpectedOutcome(system, config, args) ==
    IF system = "elo" THEN EloExpectedOutcome(args[1], args[2])
    ELSE IF system = "glicko2" THEN GlickoExpectedOutcome(args[1], args[2])
    ELSE PointsExpectedOfValues(config, args[1], args[2])

\* What get_default_rating returns.
SharedDefaultRating(system, config) ==
    IF system = "elo" THEN config.default_rating
    ELSE IF system = "glicko2" THEN GlickoDefaultRating
    ELSE << config.default_points, << >> >>

\* A caller inside calculate_rating, before pass i.
InCall(args, i, acc) ==
    [pc |-> "passes", op |-> "calculate_rating", args |-> args, i |-> i, acc |-> acc]

\* A caller that holds the value its call returned.
Returned(op, args, result) == [pc |-> "returned", op |-> op, args |-> args, result |-> result]

\* Only the callers and the instance move.
SharedCallStep ==
    UNCHANGED <<sys, start, cur, prev, outs, heap, before, fed, asked, answer,
                registry, instances, reply, resolved, regs, ops, tracked>>

\* A caller begins a call.
BeginsCall(c) ==
    /\ threads[c].pc \in {"idle", "returned"}
    /\ calls < MaxSharedCalls
    /\ calls' = calls + 1

\* calculate_rating(current_rating, outcomes) up to the first pass, or to
\* the early return for an empty list.
SharedCalculateRating(c) ==
    /\ BeginsCall(c)
    /\ \E args \in SharedArguments(sys, cfg) :
         threads' = [threads EXCEPT ![c] =
             IF args[2] = << >>
             THEN Returned("calculate_rating", args, ReturnWithoutPasses(sys, args))
             ELSE InCall(args, 1, FirstLocals(sys, args))]
    /\ UNCHANGED cfg
    /\ SharedCallStep

\* One pass of the call a caller is in.
SharedPass(c) ==
    /\ threads[c].pc = "passes"
    /\ threads[c].i <= Passes(sys, threads[c].args[2])
    /\ threads' = [threads EXCEPT ![c] =
           InCall(threads[c].args, threads[c].i + 1,
                  PassLocals(sys, cfg, threads[c].args, threads[c].i, threads[c].acc))]
    /\ cfg' = InstanceAfterPass(sys, cfg, threads[c].args[1])
    /\ UNCHANGED calls
    /\ SharedCallStep

\* The return of the call a caller is in, after the last pass.
SharedReturn(c) ==
    /\ threads[c].pc = "passes"
    /\ threads[c].i > Passes(sys, threads[c].args[2])
    /\ threads' = [threads EXCEPT ![c] =
           Returned("calculate_rating", threads[c].args,
                    ReturnAfterPasses(sys, threads[c].args, threads[c].acc))]
    /\ UNCHANGED <<cfg, calls>>
    /\ SharedCallStep

\* expected_outcome(rating1, rating2)
SharedExpected(c) ==
    /\ BeginsCall(c)
    /\ \E args \in SharedQuestions(sys, cfg) :
         threads' = [threads EXCEPT ![c] =
             Returned("expected_outcome", args, SharedExpectedOutcome(sys, cfg, args))]
    /\ UNCHANGED cfg
    /\ SharedCallStep

\* get_default_rating()
SharedGetDefault(c) ==
    /\ BeginsCall(c)
    /\ threads' = [threads EXCEPT ![c] =
           Returned("get_default_rating", << >>, SharedDefaultRating(sys, cfg))]
    /\ UNCHANGED cfg
    /\ SharedCallStep

\* One instance of one of the algorithms, constructed and handed to the
\* callers.
InitShared ==
    /\ \/ sys = "elo" /\ cfg \in EloConfigs
       \/ sys = "glicko2" /\ cfg \in { [tau |-> t] : t \in GlickoTaus }
       \/ sys = "points" /\ cfg \in PointsConfigs
    /\ instances = << cfg >>
    /\ start = 0 /\ cur = 0 /\ prev = 0
    /\ outs = 0 /\ heap = << >> /\ before = << >> /\ fed = << >> /\ calls = 0
    /\ asked = << >> /\ answer = 0
    /\ registry = << >> /\ reply = [op |-> "none"] /\ resolved = FALSE
    /\ regs = << >> /\ ops = 0
    /\ NoThreads
    /\ NothingTracked

NextShared ==
    \E c \in Callers :
        \/ SharedCalculateRating(c)
        \/ SharedPass(c)
        \/ SharedReturn(c)
        \/ SharedExpected(c)
        \/ SharedGetDefault(c)

SpecShared == InitShared /\ [][NextShared]_vars

\* ------------------------------------------------------------------------
\* The queries of the Points-based system over a history:
\* project_season_finish, get_trend and rank_participants
\* ------------------------------------------------------------------------

\* A points value (in PointUnit) as a float on the unit scale.
PointsFloat(p) == p * (One \div PointUnit)

PointsFloats(points_history) ==
    [i \in 1..Len(points_history) |-> PointsFloat(points_history[i])]

\* min(points_history) and max(points_history)
RECURSIVE PointsMin(_)
PointsMin(xs) ==
    IF Len(xs) = 1 THEN xs[1] ELSE Min(Head(xs), PointsMin(Tail(xs)))

RECURSIVE PointsMax(_)
PointsMax(xs) ==
    IF Len(xs) = 1 THEN xs[1] ELSE Max(Head(xs), PointsMax(Tail(xs)))

\* statistics.stdev(points_history): the square root of the sum of the
\* squared deviations from the mean over len - 1.
RECURSIVE SquaredDeviations(_, _)
SquaredDeviations(xs, mean) ==
    IF xs = << >> THEN 0
    ELSE FMul(Head(xs) - mean, Head(xs) - mean) + SquaredDeviations(Tail(xs), mean)

Stdev(xs, mean) ==
    FSqrt((SquaredDeviations(xs, mean) + (Len(xs) - 1) \div 2) \div (Len(xs) - 1))

\* std_dev = statistics.stdev(points_history) if len(points_history) > 1
\*           else avg_points * 0.2
StdDev(xs, avg_points) ==
    IF Len(xs) > 1 THEN Stdev(xs, avg_points) ELSE FMul(avg_points, One \div 5)

\* The confidence levels 0.95, 0.90 and 0.99 on the unit scale.
ConfidenceLevels == { 950000, 900000, 990000 }

\* z_score = 1.96 if confidence_level == 0.95
\*           else 1.645 if confidence_level == 0.90 else 2.576
ZScore(confidence_level) ==
    IF confidence_level = 950000 THEN 1960000
    ELSE IF confidence_level = 900000 THEN 1645000
    ELSE 2576000

\* margin = z_score * (std_dev / math.sqrt(len(points_history)))
\*              * math.sqrt(remaining_events)
Margin(z_score, std_dev, len, remaining_events) ==
    FMul(FMul(z_score, FDiv(std_dev, FSqrt(len * One))), FSqrt(remaining_events * One))

\* The dict returned, with the bounds clamped by one side each:
\*     "lower_bound": max(lower_bound, min_projected),
\*     "upper_bound": min(upper_bound, max_projected)
ProjectionDict(projected_total, min_projected, max_projected, lower_bound, upper_bound) ==
    [projected_points |-> projected_total,
     min_points |-> min_projected,
     max_points |-> max_projected,
     lower_bound |-> Max(lower_bound, min_projected),
     upper_bound |-> Min(upper_bound, max_projected)]

\* The projection with the average per event taken as the last entry of
\* the history.
ProjectionLastEntry(total_points, xs, avg_points, margin, remaining_events) ==
    ProjectionDict(total_points + xs[Len(xs)] * remaining_events,
                   total_points + PointsMin(xs) * remaining_events,
                   total_points + PointsMax(xs) * remaining_events,
                   total_points + xs[Len(xs)] * remaining_events - margin,
                   total_points + xs[Len(xs)] * remaining_events + margin)

\* projected_total = total_points + avg_points * remaining_events,
\* lower_bound and upper_bound margin below and above it, min_projected and
\* max_projected from the least and the greatest entry of the history.
Projection(total_points, xs, avg_points, margin, remaining_events) ==
    ProjectionDict(total_points + avg_points * remaining_events,
                   total_points + PointsMin(xs) * remaining_events,
                   total_points + PointsMax(xs) * remaining_events,
                   total_points + avg_points * remaining_events - margin,
                   total_points + avg_points * remaining_events + margin)

\* The part after avg_points = sum(points_history) / len(points_history).
ProjectionOfAverage(total_points, xs, avg_points, remaining_events, confidence_level) ==
    Projection(total_points, xs, avg_points,
               Margin(ZScore(confidence_level), StdDev(xs, avg_points), Len(xs),
                      remaining_events),
               remaining_events)

\* PointsBasedRankingSystem.project_season_finish(current_rating,
\* remaining_events, confidence_level), current_rating a tuple whose history
\* is list object current_rating.points_history of the heap h.  With an
\* empty history the five values are total_points.
ProjectSeasonFinish(h, current_rating, remaining_events, confidence_level) ==
    IF h[current_rating.points_history] = << >>
    THEN ProjectionDict(PointsFloat(current_rating.total_points),
                        PointsFloat(current_rating.total_points),
                        PointsFloat(current_rating.total_points),
                        PointsFloat(current_rating.total_points),
                        PointsFloat(current_rating.total_points))
    ELSE ProjectionOfAverage(
             PointsFloat(current_rating.total_points),
             PointsFloats(h[current_rating.points_history]),
             RoundDiv(PointsSum(PointsFloats(h[current_rating.points_history])),
                      Len(h[current_rating.points_history])),
             remaining_events, confidence_level)

\* percent_change = (recent_avg - previous_avg) / previous_avg
\*                  if previous_avg > 0 else 0
PercentChange(recent_avg, previous_avg) ==
    IF previous_avg > 0 THEN FDiv(recent_avg - previous_avg, previous_avg) ELSE 0

\* "up" above 0.1, "down" below -0.1, else "stable"
TrendOfChange(percent_change) ==
    IF percent_change > One \div 10 THEN "up"
    ELSE IF percent_change < -(One \div 10) THEN "down"
    ELSE "stable"

\* recent = points_history[-window:] and
\* previous = points_history[-(window*2):-window], for
\* len(points_history) >= window * 2 and window >= 1
TrendRecent(xs, window) == SubSeq(xs, Len(xs) - window + 1, Len(xs))

TrendPrevious(xs, window) == SubSeq(xs, Len(xs) - 2 * window + 1, Len(xs) - window)

\* PointsBasedRankingSystem.get_trend(points_history, window), window >= 1
GetTrend(points_history, window) ==
    IF Len(points_history) < window * 2 THEN "stable"
    ELSE TrendOfChange(
             PercentChange(
                 RoundDiv(PointsSum(TrendRecent(PointsFloats(points_history), window)), window),
                 RoundDiv(PointsSum(TrendPrevious(PointsFloats(points_history), window)), window)))

\* The place of an entry in a list sorted so far, with an entry put before
\* the entries of the same total.
RECURSIVE RankInsertBeforeEqual(_, _)
RankInsertBeforeEqual(ranked, entry) ==
    IF ranked # << >> /\ Head(ranked)[2] > entry[2]
    THEN << Head(ranked) >> \o RankInsertBeforeEqual(Tail(ranked), entry)
    ELSE << entry >> \o ranked

\* The place of an entry in a list sorted so far by key=lambda x: x[1],
\* reverse=True: after every entry of a greater or the same total (sorted
\* keeps the order of equal keys, also with reverse=True).
RECURSIVE RankInsert(_, _)
RankInsert(ranked, entry) ==
    IF ranked # << >> /\ Head(ranked)[2] >= entry[2]
    THEN << Head(ranked) >> \o RankInsert(Tail(ranked), entry)
    ELSE << entry >> \o ranked

\* sorted(entries, key=lambda x: x[1], reverse=True)
RECURSIVE RankSorted(_)
RankSorted(entries) ==
    IF entries = << >> THEN << >>
    ELSE RankInsert(RankSorted(SubSeq(entries, 1, Len(entries) - 1)), entries[Len(entries)])

\* PointsBasedRankingSystem.rank_participants(ratings), ratings the
\* <<pid, rating>> items of the dict in insertion order:
\*     [(pid, rating[0]) for pid, rating in ratings.items()], sorted
RankParticipants(ratings) ==
    RankSorted([i \in 1..Len(ratings) |-> <<ratings[i][1], ratings[i][2].total_points>>])

\* ------------------------------------------------------------------------
\* The Elo update with a dynamic K-factor (rating_systems/elo.py)
\* ------------------------------------------------------------------------

\* The loop with K derived anew from the running rating for every outcome.
RECURSIVE DynamicKLoopRecomputedK(_, _, _, _)
DynamicKLoopRecomputedK(k, rating, new_rating, outcomes) ==
    IF outcomes = << >> THEN new_rating
    ELSE DynamicKLoopRecomputedK(k, rating,
             new_rating + RoundDiv(AdjustKFactor(new_rating) * (Head(outcomes)[2]
                              - EloExpectedOutcome(rating, Head(outcomes)[1])),
                          One \div RatingUnit),
             Tail(outcomes))

\* for opponent_rating, result in outcomes:
\*     expected = self.expected_outcome(rating, opponent_rating)
\*     new_rating += k * (result - expected)
RECURSIVE DynamicKLoop(_, _, _, _)
DynamicKLoop(k, rating, new_rating, outcomes) ==
    IF outcomes = << >> THEN new_rating
    ELSE DynamicKLoop(k, rating,
             new_rating + RoundDiv(k * (Head(outcomes)[2]
                              - EloExpectedOutcome(rating, Head(outcomes)[1])),
                          One \div RatingUnit),
             Tail(outcomes))

\* EloRatingSystem.get_rating_with_dynamic_k(rating, outcomes):
\*     k = self.adjust_k_factor(rating), once, before the loop
GetRatingWithDynamicK(rating, outcomes) ==
    IF outcomes = << >> THEN rating
    ELSE DynamicKLoop(AdjustKFactor(rating), rating, rating, outcomes)

\* ------------------------------------------------------------------------
\* The visualizers' normalization of rating data and the rating history
\* (visualizers/rating_visualizer.py, rating_history_visualizer.py)
\* A Python value is a record with its type; the numbers of a display
\* triple are floats on the rating scale.
\* ------------------------------------------------------------------------

PyTuple(items) == [type |-> "tuple", items |-> items]

PyFloat(value) == [type |-> "float", value |-> value]

PyInt(value) == [type |-> "int", value |-> value]

PyList(items) == [type |-> "list", items |-> items]

PyNone == [type |-> "NoneType"]

\* float(rating_data) of an int or a float.
ToFloat(rating_data) ==
    IF rating_data.type = "int" THEN rating_data.value * RatingUnit ELSE rating_data.value

\* RatingVisualizer._convert_to_display_format(rating_data)
ConvertToDisplayFormat(rating_data) ==
    IF rating_data.type = "tuple" /\ Len(rating_data.items) >= 3
    THEN << rating_data.items[1], rating_data.items[2], rating_data.items[3] >>
    ELSE IF rating_data.type = "tuple" /\ Len(rating_data.items) = 2
    THEN << rating_data.items[1], rating_data.items[2], 0 >>
    ELSE IF rating_data.type \in {"int", "float"}
    THEN << ToFloat(rating_data), 0, 0 >>
    ELSE << 0, 0, 0 >>

\* if name not in self.history:
\*     self.history[name] = {"ratings": [], "rds": [], "vols": []}
HistoryWithName(history, name) ==
    IF \E i \in DOMAIN history : history[i][1] = name THEN history
    ELSE Append(history, << name, [ratings |-> << >>, rds |-> << >>, vols |-> << >>] >>)

\* self.history[name]["ratings"].append(rating), and the same for "rds"
\* and "vols"
HistoryAppended(history, name, display) ==
    [i \in DOMAIN history |->
        IF history[i][1] = name
        THEN << name, [ratings |-> Append(history[i][2].ratings, display[1]),
                       rds |-> Append(history[i][2].rds, display[2]),
                       vols |-> Append(history[i][2].vols, display[3])] >>
        ELSE history[i]]

\* RatingHistoryVisualizer.track(name, rating_data): self.history after it.
TrackHistory(history, name, rating_data) ==
    HistoryAppended(HistoryWithName(history, name), name,
                    ConvertToDisplayFormat(rating_data))

\* ------------------------------------------------------------------------
\* The specification of the query functions: one instance, and the
\* histories a caller holds as list objects
\* ------------------------------------------------------------------------

\* The greatest number of remaining events asked about.
MaxRemaining == 3

\* The greatest window get_trend is asked about.
MaxWindow == 3

\* The history lists the caller holds: empty, single entries (positive,
\* negative, zero), and longer ones, among them rises and falls of exactly
\* 10%, of more and of less, from a positive, a zero and a negative level.
QueryHistories ==
    << << >>,
       << Points(10) >>,
       << Points(-10) >>,
       << 0 >>,
       << Points(10), Points(20) >>,
       << Points(-10), Points(-20) >>,
       << Points(20), Points(10), Points(30), 55 >>,
       << Points(10), Points(10), Points(10) >>,
       << Points(100), Points(110) >>,
       << Points(100), Points(111) >>,
       << Points(100), Points(90) >>,
       << Points(100), Points(89) >>,
       << 0, Points(10) >>,
       << Points(-10), Points(20) >>,
       << Points(10), Points(20), Points(30), Points(40), Points(50), Points(60) >>,
       << Points(60), Points(50), Points(40), Points(30), Points(20), Points(10) >>,
       << Points(25), Points(24), Points(26), Points(25), Points(24), Points(26) >> >>

QueryTotals == { 0, Points(30), Points(-10), Points(100) }

\* Nothing but queries happens, and none has been asked yet: no
\* calculate_rating call, no registry operation, no shared caller.
NoCalls ==
    /\ start = 0 /\ cur = 0 /\ prev = 0 /\ outs = 0 /\ fed = << >> /\ calls = 0
    /\ asked = << >> /\ answer = 0
    /\ RegistryUnused /\ NoThreads /\ NothingTracked

InitPointsQueries ==
    /\ sys = "points"
    /\ cfg \in PointsConfigs
    /\ heap = QueryHistories
    /\ before = heap
    /\ NoCalls

\* project_season_finish(current_rating, remaining_events, confidence_level)
ProjectSeasonFinishAsked ==
    /\ sys = "points"
    /\ asked = << >>
    /\ \E total_points \in QueryTotals, points_history \in DOMAIN heap,
          remaining_events \in 0..MaxRemaining, confidence_level \in ConfidenceLevels :
         /\ asked' = [op |-> "project_season_finish",
                      current_rating |-> PointsState(total_points, points_history),
                      remaining_events |-> remaining_events,
                      confidence_level |-> confidence_level]
         /\ answer' = ProjectSeasonFinish(heap, PointsState(total_points, points_history),
                                          remaining_events, confidence_level)
    /\ SingleCallerQuery

\* get_trend(points_history, window)
GetTrendAsked ==
    /\ sys = "points"
    /\ asked = << >>
    /\ \E points_history \in DOMAIN heap, window \in 1..MaxWindow :
         /\ asked' = [op |-> "get_trend", points_history |-> points_history,
                      window |-> window]
         /\ answer' = GetTrend(heap[points_history], window)
    /\ SingleCallerQuery

\* The participants of a ranking and the totals they can have.
Participants == { "alice", "bob", "carol" }

RankedTotals == { Points(10), Points(20) }

\* The dicts of ratings: up to three participants in every insertion
\* order, each with a total and a history list.
RatingsOf(pids) ==
    { [i \in 1..Len(pids) |-> <<pids[i], PointsState(totals[i], 1)>>] :
        totals \in [1..Len(pids) -> RankedTotals] }

RatingsDicts ==
    UNION { RatingsOf(pids) :
              pids \in { q \in UNION { [1..n -> Participants] : n \in 0..3 } :
                           \A i, j \in DOMAIN q : i # j => q[i] # q[j] } }

\* rank_participants(ratings)
RankParticipantsAsked ==
    /\ sys = "points"
    /\ asked = << >>
    /\ \E ratings \in RatingsDicts :
         /\ asked' = [op |-> "rank_participants", ratings |-> ratings]
         /\ answer' = RankParticipants(ratings)
    /\ SingleCallerQuery

\* The ratings the dynamic K is asked for: well inside a band, and at,
\* just below and a win or a loss away from the band limits 2100 and 2400.
DynamicKRatings ==
    { 1500 * RatingUnit, 2095 * RatingUnit, 2100 * RatingUnit - 1, 2100 * RatingUnit,
      2105 * RatingUnit, 2395 * RatingUnit, 2400 * RatingUnit - 1, 2400 * RatingUnit,
      2405 * RatingUnit, 2600 * RatingUnit }

\* The outcome lists: none, single games, and pairs of games that carry
\* the running rating across a band limit.
DynamicKBatches ==
    { << >>,
      << EloOutcome(1500, Win) >>,
      << EloOutcome(2100, Loss) >>,
      << EloOutcome(2100, Win), EloOutcome(2100, Win) >>,
      << EloOutcome(2100, Loss), EloOutcome(2100, Loss) >>,
      << EloOutcome(2400, Win), EloOutcome(2400, Draw) >>,
      << EloOutcome(2400, Loss), EloOutcome(2400, Win), EloOutcome(2400, Loss) >> }

InitEloQueries ==
    /\ sys = "elo"
    /\ cfg \in EloConfigs
    /\ heap = << >>
    /\ before = heap
    /\ NoCalls

\* adjust_k_factor(rating)
AdjustKFactorAsked ==
    /\ sys = "elo"
    /\ asked = << >>
    /\ \E rating \in DynamicKRatings :
         /\ asked' = [op |-> "adjust_k_factor", rating |-> rating]
         /\ answer' = AdjustKFactor(rating)
    /\ SingleCallerQuery

\* get_rating_with_dynamic_k(rating, outcomes)
GetRatingWithDynamicKAsked ==
    /\ sys = "elo"
    /\ asked = << >>
    /\ \E rating \in DynamicKRatings, outcomes \in DynamicKBatches :
         /\ asked' = [op |-> "get_rating_with_dynamic_k", rating |-> rating,
                      outcomes |-> outcomes]
         /\ answer' = GetRatingWithDynamicK(rating, outcomes)
    /\ SingleCallerQuery

\* The number of track calls a behaviour makes.
MaxTracked == 2

\* The rating data handed to a visualizer: a Glicko-2 state, a
\* (rating, deviation) pair, an Elo rating as a float and as an int, a list,
\* None, and tuples of no, one and four elements.
DisplayInputs ==
    { PyTuple(<< 1500 * RatingUnit, 350 * RatingUnit, 6000 >>),
      PyTuple(<< 1620 * RatingUnit, 80 * RatingUnit >>),
      PyFloat(1516 * RatingUnit),
      PyInt(1500),
      PyList(<< 1500 * RatingUnit, 350 * RatingUnit, 6000 >>),
      PyNone,
      PyTuple(<< >>),
      PyTuple(<< 1500 * RatingUnit >>),
      PyTuple(<< 1500 * RatingUnit, 350 * RatingUnit, 6000, 1 >>) }

\* A RatingHistoryVisualizer after construction.
InitVisualizer ==
    /\ sys = "visualizer"
    /\ cfg = << >>
    /\ heap = << >>
    /\ before = heap
    /\ NoCalls

\* track(name, rating_data); it returns None.
Track ==
    /\ sys = "visualizer"
    /\ calls < MaxTracked
    /\ calls' = calls + 1
    /\ \E name \in Participants, rating_data \in DisplayInputs :
         /\ asked' = [op |-> "track", name |-> name, rating_data |-> rating_data]
         /\ tracked' = TrackHistory(tracked, name, rating_data)
    /\ answer' = << >>
    /\ UNCHANGED <<sys, cfg, start, cur, prev, outs, heap, before, fed,
                   registry, instances, reply, resolved, regs, ops, threads>>

InitQueries == InitPointsQueries \/ InitEloQueries \/ InitVisualizer

NextQueries ==
    \/ ProjectSeasonFinishAsked
    \/ GetTrendAsked
    \/ RankParticipantsAsked
    \/ AdjustKFactorAsked
    \/ GetRatingWithDynamicKAsked
    \/ Track

SpecQueries == InitQueries /\ [][NextQueries]_vars

\* ------------------------------------------------------------------------

Init == InitElo \/ InitGlicko \/ InitPoints

Next ==
    \/ EloRated
    \/ EloNoOutcomes
    \/ GlickoRated
    \/ GlickoInactive
    \/ PointsRated
    \/ PointsNoOutcomes
    \/ EloExpected
    \/ GlickoExpected
    \/ PointsExpected

Spec == Init /\ [][Next]_vars

\* ------------------------------------------------------------------------
\* Properties
\* ------------------------------------------------------------------------

\* The last call passed at least one outcome.
RatedCall == calls > 0 /\ heap[outs] # << >>

\* The last call passed no outcome.
EmptyCall == calls > 0 /\ heap[outs] = << >>

\* The contribution the specification assigns to one original score: the
\* points of its rank when the instance has a rank table, then the bonus when
\* the result exceeds the threshold.
RankContribution(score) ==
    IF cfg.rank_points = << >> THEN score
    ELSE IF 1 <= PointsInt(score) /\ PointsInt(score) <= Len(cfg.rank_points[1])
         THEN cfg.rank_points[1][PointsInt(score)]
         ELSE 0

BonusContribution(p) ==
    IF cfg.bonus_threshold # << >> /\ p > cfg.bonus_threshold[1]
    THEN p + cfg.bonus_points
    ELSE p

RECURSIVE ContributionSum(_)
ContributionSum(scores) ==
    IF scores = << >> THEN 0
    ELSE BonusContribution(RankContribution(Head(scores))) + ContributionSum(Tail(scores))

\* C1: for a Points-based participant started from get_default_rating(),
\* after every sequence of calls the history is the concatenation, in call
\* order, of the original outcome values of all calls, and the total is
\* default_points plus the sum of the transformed (rank lookup, then bonus)
\* contributions of those values.
PointsHistoryAndTotal ==
    (sys = "points" /\ start = <<cfg.default_points, << >> >>)
        => /\ cur.is_tuple
           /\ heap[cur.points_history] = fed
           /\ cur.total_points = cfg.default_points + ContributionSum(fed)

\* Two calls from the default state under rank points and a bonus, the
\* transforms having changed what was added.
PointsHistoryAndTotalWitness ==
    /\ sys = "points"
    /\ start = <<cfg.default_points, << >> >>
    /\ calls = 2
    /\ cfg.rank_points # << >>
    /\ cfg.bonus_threshold # << >>
    /\ Len(fed) >= 3
    /\ heap[cur.points_history] = fed
    /\ cur.total_points > cfg.default_points
    /\ cur.total_points # cfg.default_points + PointsSum(fed)

\* C2: for Glicko-2 started from get_default_rating(), after every sequence
\* of calls the rating deviation is strictly positive and at most 350.
GlickoDeviationWithinCeiling ==
    (sys = "glicko2" /\ start = GlickoDefaultRating)
        => (cur[2] > 0 /\ cur[2] <= DefaultRd * RatingUnit)

\* C3: every Glicko-2 call with at least one outcome returns a rating
\* deviation strictly smaller than the deviation passed in.
GlickoDeviationShrinks ==
    (sys = "glicko2" /\ RatedCall) => cur[2] < prev[2]

\* r <= sqrt(rd^2 + vol^2) for numbers on the rating scale, that is
\* (r - rd) * (r + rd) <= vol^2, the product replaced by a quotient that
\* stays inside the integer range.
HypotAtLeast(r, rd, vol) == r <= rd \/ r - rd <= (vol * vol) \div (r + rd)

\* r is sqrt(rd^2 + vol^2) rounded down to the rating scale.
IsFloorHypot(r, rd, vol) == HypotAtLeast(r, rd, vol) /\ ~HypotAtLeast(r + 1, rd, vol)

\* C4: a Glicko-2 call without outcomes leaves the rating and the volatility
\* unchanged, returns the deviation min(sqrt(RD^2 + volatility^2), 350),
\* never a deviation smaller than the one passed in, and returns 350 once
\* the deviation passed in is 350.
GlickoInactivityGrowsDeviation ==
    (sys = "glicko2" /\ EmptyCall)
        => /\ cur[1] = prev[1]
           /\ cur[3] = prev[3]
           /\ cur[2] <= DefaultRd * RatingUnit
           /\ cur[2] < DefaultRd * RatingUnit
                  => IsFloorHypot(cur[2], prev[2], prev[3] \div (One \div RatingUnit))
           /\ cur[2] = DefaultRd * RatingUnit
                  => HypotAtLeast(cur[2], prev[2], prev[3] \div (One \div RatingUnit))
           /\ cur[2] >= prev[2]
           /\ (prev[2] = DefaultRd * RatingUnit => cur[2] = DefaultRd * RatingUnit)

\* The volatility lies in the band [0.01, 0.1].
VolInBand(vol) == VolFloor <= vol /\ vol <= VolCeiling

\* C5 as stated: every Glicko-2 call with at least one outcome returns a
\* volatility inside [0.01, 0.1], for every tau and every input state.
GlickoVolatilityAlwaysInBand ==
    (sys = "glicko2" /\ RatedCall) => VolInBand(cur[3])

\* C5 as amended: a Glicko-2 call with at least one outcome returns a
\* volatility inside [0.01, 0.1] whenever the loop leaves a nonzero v_sum,
\* and returns the state passed in, volatility included, when v_sum is zero;
\* from the default state the volatility is in the band after every
\* sequence of calls.
GlickoVolatilityInBand ==
    /\ (sys = "glicko2" /\ RatedCall)
           => IF VSum(ToMu(prev[1]), heap[outs]) = 0
              THEN cur = prev
              ELSE VolInBand(cur[3])
    /\ (sys = "glicko2" /\ start = GlickoDefaultRating) => VolInBand(cur[3])

\* A call whose volatility update left the band and was clamped to its floor.
GlickoVolatilityInBandWitness ==
    /\ sys = "glicko2"
    /\ RatedCall
    /\ VSum(ToMu(prev[1]), heap[outs]) # 0
    /\ prev[3] > VolFloor
    /\ RoundDiv(prev[3] * 9, 10) < VolFloor
    /\ cur[3] = VolFloor

\* C6: calculate_rating(state, []) returns the same rating for Elo and, for
\* Points-based, the same total with the same history contents, the history
\* being empty when the state was given as a bare total.
NoOutcomeIdentity ==
    /\ (sys = "elo" /\ EmptyCall) => cur = prev
    /\ (sys = "points" /\ EmptyCall)
           => /\ cur.is_tuple
              /\ cur.total_points = prev.total_points
              /\ heap[cur.points_history]
                     = (IF prev.is_tuple THEN before[prev.points_history] ELSE << >>)

\* An empty call on a Points-based state that has a total other than the
\* default and a history.
NoOutcomeIdentityWitness ==
    /\ sys = "points"
    /\ EmptyCall
    /\ prev.is_tuple
    /\ prev.total_points # cfg.default_points
    /\ before[prev.points_history] # << >>
    /\ PointsValue(heap, cur) = PointsValue(before, prev)

\* C7: calculate_rating does not mutate its inputs: every list that existed
\* when the call was made, the outcomes list and a Points-based history list
\* among them, holds after the call the contents it held before, and so does
\* the state that was passed in.
InputsNotMutated ==
    calls > 0
        => /\ Len(heap) >= Len(before)
           /\ \A i \in 1..Len(before) : heap[i] = before[i]
           /\ heap[outs] = before[outs]
           /\ sys = "points" => PointsValue(heap, prev) = PointsValue(before, prev)

\* A Points-based call with outcomes, under rank points and a bonus, on a
\* state with a history: the returned history is longer and the one passed
\* in is as it was.
InputsNotMutatedWitness ==
    /\ sys = "points"
    /\ RatedCall
    /\ cfg.rank_points # << >>
    /\ cfg.bonus_threshold # << >>
    /\ prev.is_tuple
    /\ before[prev.points_history] # << >>
    /\ heap[prev.points_history] = before[prev.points_history]
    /\ Len(heap[cur.points_history]) > Len(heap[prev.points_history])

\* The outcomes of the last call but the last one, and the last one.
EarlierOutcomes == SubSeq(heap[outs], 1, Len(heap[outs]) - 1)

LastOutcome == heap[outs][Len(heap[outs])]

\* C8 as stated: Elo folds the outcomes into one running rating, so that
\* calculate_rating(r, [o1, o2]) equals
\* calculate_rating(calculate_rating(r, [o1]), [o2]).
EloSequentialFold ==
    (sys = "elo" /\ RatedCall /\ Len(heap[outs]) = 2)
        => cur = EloCalculateRating(cfg.k_factor,
                     EloCalculateRating(cfg.k_factor, prev, EarlierOutcomes),
                     <<LastOutcome>>)

\* C8 as amended: the expected score of every outcome is computed from the
\* rating r passed into the call, so calculate_rating(r, [o1, ..., on]) with
\* n >= 2 equals calculate_rating(r, [o1, ..., o(n-1)])
\* + calculate_rating_change(r, opponent_n, result_n).
EloFoldFromPassedRating ==
    (sys = "elo" /\ RatedCall /\ Len(heap[outs]) >= 2)
        => cur = EloCalculateRating(cfg.k_factor, prev, EarlierOutcomes)
                     + EloCalculateRatingChange(cfg.k_factor, prev,
                                                LastOutcome[1], LastOutcome[2])

\* A call with two outcomes whose result differs from that of the two
\* single-outcome calls made one after the other.
EloFoldFromPassedRatingWitness ==
    /\ sys = "elo"
    /\ RatedCall
    /\ Len(heap[outs]) = 2
    /\ cur # prev
    /\ cur # EloCalculateRating(cfg.k_factor,
                  EloCalculateRating(cfg.k_factor, prev, EarlierOutcomes),
                  <<LastOutcome>>)

\* k_factor * (result - expected_outcome(r, opponent)) in rating units, the
\* expected score taken against the rating r.
ChangeAgainst(r, o) ==
    RoundDiv(cfg.k_factor * (o[2] - EloExpectedOutcome(r, o[1])), One \div RatingUnit)

RECURSIVE ChangeSum(_, _)
ChangeSum(r, outcomes) ==
    IF outcomes = << >> THEN 0
    ELSE ChangeAgainst(r, Head(outcomes)) + ChangeSum(r, Tail(outcomes))

\* The orders of n outcomes.
Orders(n) == { f \in [1..n -> 1..n] : \A i, j \in 1..n : f[i] = f[j] => i = j }

\* C9: Elo calculate_rating(r, outcomes) returns r plus the sum over the
\* outcomes of k_factor * (result - expected_outcome(r, opponent)), every
\* expected score taken against r, and returns the same for every order of
\* the outcomes.
EloSumAgainstPassedRating ==
    (sys = "elo" /\ RatedCall)
        => /\ cur = prev + ChangeSum(prev, heap[outs])
           /\ \A f \in Orders(Len(heap[outs])) :
                  EloCalculateRating(cfg.k_factor, prev,
                                     [i \in 1..Len(heap[outs]) |-> heap[outs][f[i]]]) = cur

\* A call with outcomes against different opponents that moved the rating.
EloSumAgainstPassedRatingWitness ==
    /\ sys = "elo"
    /\ RatedCall
    /\ Len(heap[outs]) >= 2
    /\ heap[outs][1][1] # heap[outs][2][1]
    /\ cur # prev
    /\ cur = prev + ChangeSum(prev, heap[outs])

\* The expected score of the only outcome of the last call.
ExpectedOfOnlyOutcome == EloExpectedOutcome(prev, heap[outs][1][1])

\* C10: for a single outcome Elo returns
\* r + k_factor * (result - expected_outcome(r, opp)), which is
\* r + calculate_rating_change(r, opp, result); the rating rises exactly when
\* the result exceeds the expected score and falls exactly when it is below
\* it; with K = 32 and both players at 1500 a win gives 1516, a loss 1484
\* and a draw 1500.
EloSingleOutcome ==
    (sys = "elo" /\ RatedCall /\ Len(heap[outs]) = 1)
        => /\ cur = prev + ChangeAgainst(prev, heap[outs][1])
           /\ cur = prev + EloCalculateRatingChange(cfg.k_factor, prev,
                                heap[outs][1][1], heap[outs][1][2])
           /\ cur > prev <=> heap[outs][1][2] > ExpectedOfOnlyOutcome
           /\ cur < prev <=> heap[outs][1][2] < ExpectedOfOnlyOutcome
           /\ (cfg.k_factor = 32 /\ prev = 1500 * RatingUnit
                   /\ heap[outs][1][1] = 1500 * RatingUnit)
                  => /\ heap[outs][1][2] = Win => cur = 1516 * RatingUnit
                     /\ heap[outs][1][2] = Loss => cur = 1484 * RatingUnit
                     /\ heap[outs][1][2] = Draw => cur = 1500 * RatingUnit

\* The worked example: K = 32, both players at 1500, a win.
EloSingleOutcomeWitness ==
    /\ sys = "elo"
    /\ RatedCall
    /\ cfg.k_factor = 32
    /\ prev = 1500 * RatingUnit
    /\ heap[outs] = << EloOutcome(1500, Win) >>
    /\ cur = 1516 * RatingUnit

\* ------------------------------------------------------------------------
\* Expected outcomes

\* An expected_outcome call was made whose answer depends on the ratings
\* alone through their difference: any Elo instance, and a Points-based
\* instance with points_history_weight 0.
DifferenceQuery ==
    /\ asked # << >>
    /\ sys \in {"elo", "points"}
    /\ sys = "points" => cfg.points_history_weight = 0

\* What the instance returns for the ratings of the last call, swapped.
SwappedAnswer ==
    IF sys = "elo" THEN EloExpectedOutcome(asked[2], asked[1])
    ELSE IF sys = "points" THEN PointsExpectedOfValues(cfg, asked[2], asked[1])
    ELSE GlickoExpectedOutcome(asked[2], asked[1])

\* C11: for Elo, and for Points-based with points_history_weight 0,
\* expected_outcome(A, B) + expected_outcome(B, A) is 1 to within one unit
\* of the last place that is kept, and expected_outcome(A, A) is exactly
\* 0.5.
ExpectedOutcomesSumToOne ==
    DifferenceQuery =>
        /\ Abs(answer + SwappedAnswer - One) <= 1
        /\ asked[1] = asked[2] => answer = One \div 2

\* A Points-based instance with points_history_weight 0 was asked about a
\* rating with the smaller total against one with the larger total.
ExpectedOutcomesSumToOneWitness ==
    /\ DifferenceQuery /\ sys = "points" /\ asked[1][1] < asked[2][1]
    /\ answer < One \div 2

\* C12: for Glicko-2, expected_outcome(A, B) + expected_outcome(B, A) is 1
\* (to within one unit of the last place that is kept) for every pair of
\* (rating, rd) tuples, the deviations equal or not.
GlickoExpectedOutcomesSumToOne ==
    (asked # << >> /\ sys = "glicko2") => Abs(answer + SwappedAnswer - One) <= 1

\* ------------------------------------------------------------------------
\* The Glicko-2 reference example

\* The last call was the reference example: tau = 0.5, the state
\* (1500, 200, 0.06) and the outcomes (1400, 30, win), (1550, 100, loss),
\* (1700, 300, loss).
ReferenceExampleCall ==
    /\ sys = "glicko2"
    /\ RatedCall
    /\ cfg.tau = One \div 2
    /\ prev = GlickoState(1500, 200, 60000)
    /\ heap[outs] = << GlickoOutcome(1400, 30, Win), GlickoOutcome(1550, 100, Loss),
                       GlickoOutcome(1700, 300, Loss) >>

\* C13: the reference example returns rating 1464.06 and deviation 151.52
\* within 0.01, and volatility 0.05999 within 0.0001.
GlickoReferenceExample ==
    ReferenceExampleCall =>
        /\ Abs(cur[1] - 146406000) <= RatingUnit \div 100
        /\ Abs(cur[2] - 15152000) <= RatingUnit \div 100
        /\ Abs(cur[3] - 59990) <= One \div 10000

\* ------------------------------------------------------------------------
\* Wins and losses

\* Every outcome of the last call had this result.
AllResults(result) == \A i \in 1..Len(heap[outs]) : heap[outs][i][3] = result

\* Every opponent of the last call was rated within 1000 points of the
\* rating passed in, with a deviation of at most 350.
OpponentsInRange ==
    \A i \in 1..Len(heap[outs]) :
        /\ Abs(heap[outs][i][1] - prev[1]) <= 1000 * RatingUnit
        /\ heap[outs][i][2] <= DefaultRd * RatingUnit

PlainPoints ==
    sys = "points" /\ cfg.rank_points = << >> /\ cfg.bonus_threshold = << >>

\* The value calculate_rating returns for the starting state when all the
\* outcomes fed so far are passed in one call.
PointsInOneCall ==
    PointsValue(
        PointsCalculateRating(cfg, << PointsListOfValue(start), fed >>,
                              PointsOfValue(start, 1), 2).heap,
        PointsCalculateRating(cfg, << PointsListOfValue(start), fed >>,
                              PointsOfValue(start, 1), 2).state)

\* C20: for Points-based with no rank_points and no bonus, the state after
\* two (or more) calls has the same total as one call that is passed the
\* concatenated outcomes, and both have the history of the starting state
\* followed by the outcomes of the calls in order.
PointsAdditive ==
    (PlainPoints /\ calls >= 2) =>
        /\ cur.total_points = PointsInOneCall[1]
        /\ heap[cur.points_history] = PointsListOfValue(start) \o fed
        /\ PointsInOneCall[2] = PointsListOfValue(start) \o fed

\* Two calls with outcomes were made from a state that has a history.
PointsAdditiveWitness ==
    /\ PlainPoints /\ calls = 2
    /\ PointsListOfValue(start) # << >>
    /\ heap[outs] # << >>
    /\ Len(fed) > Len(heap[outs])
    /\ cur.total_points = PointsInOneCall[1]
    /\ cur.total_points # start[1]

\* ------------------------------------------------------------------------
\* The registry

\* The class of the latest register call whose name folds to key, None when
\* there was no such call.
LastRegistered(key) ==
    IF \E i \in 1..Len(regs) : Lower(regs[i][1]) = key
    THEN << regs[CHOOSE i \in 1..Len(regs) :
                    /\ Lower(regs[i][1]) = key
                    /\ \A j \in (i + 1)..Len(regs) : Lower(regs[j][1]) # key][2] >>
    ELSE << >>

\* The step is a call of RatingSystemRegistry.get with a name that was
\* registered, up to letter case, and keywords the registered constructor
\* takes.
GetOfRegistered ==
    /\ ops' # ops
    /\ reply'.op = "get"
    /\ LastRegistered(Lower(reply'.name)) # << >>
    /\ DOMAIN reply'.kwargs \subseteq Parameters(LastRegistered(Lower(reply'.name))[1])

\* The step adds one object to the ones that exist and returns it; the
\* object is of the class registered last under the folded name and carries
\* the keyword arguments as its attributes.
ReturnsNewInstance ==
    /\ Len(instances') = Len(instances) + 1
    /\ SubSeq(instances', 1, Len(instances)) = instances
    /\ reply'.result = << Len(instances') >>
    /\ reply'.error = << >>
    /\ instances'[Len(instances')].cls = LastRegistered(Lower(reply'.name))[1]
    /\ \A k \in DOMAIN reply'.kwargs : instances'[Len(instances')][k] = reply'.kwargs[k]

\* The step registers again the pair that is in effect for its name.
RegisterOfSamePair ==
    /\ ops' # ops
    /\ reply'.op = "register"
    /\ LastRegistered(Lower(reply'.name)) = reply'.kwargs

\* C15: get(name, **config), for a name that equals a registered name up to
\* letter case, returns a newly constructed instance, a distinct one on every
\* call, built with the supplied configuration by the constructor registered
\* last under the case-folded name; registering the same (name, constructor)
\* pair again leaves the registry as it was.
RegistryGetBuildsLastRegistered ==
    [][ /\ GetOfRegistered => ReturnsNewInstance
        /\ RegisterOfSamePair => registry' = registry ]_vars

\* Two classes were registered under names that fold to the same key, and a
\* lookup in a third spelling returned an instance of the second class.
RegistryGetBuildsLastRegisteredWitness ==
    /\ reply.op = "get" /\ reply.name = "ELO" /\ reply.result # << >>
    /\ Len(regs) = 2 /\ regs[1][1] # regs[2][1] /\ regs[1][2] # regs[2][2]
    /\ Lower(regs[1][1]) = "elo" /\ Lower(regs[2][1]) = "elo"
    /\ instances[reply.result[1]].cls = regs[2][2]

\* The step is a lookup of a name that was never registered, up to letter
\* case.
LookupOfUnknown ==
    /\ ops' # ops
    /\ reply'.op \in {"get", "get_rating_system"}
    /\ LastRegistered(Lower(reply'.name)) = << >>

\* The names of the ValueError are the registered ones, each once.
ListsRegisteredNames(available) ==
    /\ { available[i] : i \in 1..Len(available) }
           = { Lower(regs[i][1]) : i \in 1..Len(regs) }
    /\ \A i, j \in 1..Len(available) : available[i] = available[j] => i = j

\* C16: resolving a name that is not registered never yields a default
\* algorithm: get returns None, get_rating_system raises a ValueError that
\* names the requested name and lists every registered name, and in both
\* cases no instance is constructed and the registry is left unchanged.
UnknownNameNotDefaulted ==
    [][ LookupOfUnknown =>
          /\ instances' = instances
          /\ registry' = registry
          /\ reply'.result = << >>
          /\ reply'.op = "get" => reply'.error = << >>
          /\ reply'.op = "get_rating_system" =>
                /\ Len(reply'.error) = 1
                /\ reply'.error[1].type = "ValueError"
                /\ reply'.error[1].unsupported = reply'.name
                /\ ListsRegisteredNames(reply'.error[1].available) ]_vars

\* get_rating_system was asked for an unregistered name while two names were
\* registered, and raised the error that lists both.
UnknownNameNotDefaultedWitness ==
    /\ reply.op = "get_rating_system" /\ reply.name = "trueskill"
    /\ reply.error # << >>
    /\ reply.error[1].unsupported = "trueskill"
    /\ Len(reply.error[1].available) = 2
    /\ instances = << >>

\* C17: once a resolution (get, get_rating_system or list_available) has
\* been made, the name-to-constructor map never changes.
RegistryWriteOnce == [][ resolved => registry' = registry ]_vars

\* C18: no instance exists with an out-of-range configuration: an
\* EloRatingSystem with a negative k_factor or a Glicko2RatingSystem with
\* tau <= 0.
NoOutOfRangeInstance ==
    \A i \in 1..Len(instances) :
        /\ instances[i].cls = "EloRatingSystem" => instances[i].k_factor >= 0
        /\ instances[i].cls = "Glicko2RatingSystem" => instances[i].tau > 0

\* ------------------------------------------------------------------------
\* A shared instance

\* What the call a caller made returns when it runs alone on the instance
\* as it was constructed.
ReturnsAlone(t) ==
    IF t.op = "calculate_rating"
    THEN IF sys = "elo" THEN EloCalculateRating(instances[1].k_factor, t.args[1], t.args[2])
         ELSE IF sys = "glicko2" THEN GlickoCalculateRating(t.args[1], t.args[2])
         ELSE PointsValue(
                  PointsCalculateRating(instances[1], << PointsListOfValue(t.args[1]), t.args[2] >>,
                                        PointsOfValue(t.args[1], 1), 2).heap,
                  PointsCalculateRating(instances[1], << PointsListOfValue(t.args[1]), t.args[2] >>,
                                        PointsOfValue(t.args[1], 1), 2).state)
    ELSE IF t.op = "expected_outcome" THEN SharedExpectedOutcome(sys, instances[1], t.args)
    ELSE SharedDefaultRating(sys, instances[1])

\* C19: no call writes an attribute of the instance, and under every
\* interleaving of the passes of the callers' calls each call returns what
\* it returns when it runs alone with the same arguments.
SharedInstanceUnaffected ==
    /\ cfg = instances[1]
    /\ \A c \in Callers :
          threads[c].pc = "returned" => threads[c].result = ReturnsAlone(threads[c])

\* Both callers returned from calculate_rating calls with different
\* arguments, each having made its passes.
SharedInstanceUnaffectedWitness ==
    /\ \A c \in Callers :
          /\ threads[c].pc = "returned"
          /\ threads[c].op = "calculate_rating"
          /\ threads[c].args[2] # << >>
          /\ threads[c].result # threads[c].args[1]
    /\ threads["a"].args # threads["b"].args

\* ------------------------------------------------------------------------
\* Rank points and the bonus

\* Every outcome of the last call is a whole number, a finishing position.
WholePositions ==
    \A i \in 1..Len(heap[outs]) : (heap[outs][i] \div PointUnit) * PointUnit = heap[outs][i]

\* The points of a finishing position: rank_points[position - 1] of the
\* 0-based list, 0 for a position outside 1..len(rank_points).
PositionPoints(position) ==
    IF 1 <= position /\ position <= Len(cfg.rank_points[1])
    THEN cfg.rank_points[1][position] ELSE 0

\* The sum of the points of the positions, each with the bonus when the
\* instance has one and the points exceed its threshold.
RECURSIVE PositionPointsSum(_)
PositionPointsSum(positions) ==
    IF positions = << >> THEN 0
    ELSE BonusContribution(PositionPoints(Head(positions) \div PointUnit))
             + PositionPointsSum(Tail(positions))

\* The call was the one of test_rank_points.
RankPointsExample ==
    /\ cfg.rank_points = << <<Points(10), Points(8), Points(6), Points(4), Points(2)>> >>
    /\ cfg.bonus_threshold = << >>
    /\ prev = PointsState(0, 1) /\ before[1] = << >>
    /\ heap[outs] = << Points(1), Points(3), Points(2) >>

\* C21: with rank_points configured, calculate_rating adds to the total, for
\* every outcome, the points of that 1-based finishing position, 0 for a
\* position outside 1..len(rank_points), zero and negative ones included
\* (and the bonus on top when one is configured); the history records the
\* positions themselves; rank_points [10, 8, 6, 4, 2] and outcomes [1, 3, 2]
\* from (0, []) give the total 24.
RankPointsAdded ==
    (sys = "points" /\ RatedCall /\ cfg.rank_points # << >> /\ WholePositions) =>
        /\ cur.total_points = prev.total_points + PositionPointsSum(heap[outs])
        /\ heap[cur.points_history] = PointsHistoryOf(before, prev) \o heap[outs]
        /\ RankPointsExample => cur.total_points = Points(24)

\* The call of test_rank_points was made and returned the total 24.
RankPointsAddedWitness ==
    /\ sys = "points" /\ RatedCall /\ RankPointsExample
    /\ cur.total_points = Points(24)
    /\ heap[cur.points_history] = << Points(1), Points(3), Points(2) >>

\* The sum of the scores as they stand after the rank-points transform.
RECURSIVE TransformedSum(_)
TransformedSum(scores) ==
    IF scores = << >> THEN 0
    ELSE RankContribution(Head(scores)) + TransformedSum(Tail(scores))

\* The outcomes of the last call whose transformed score is strictly
\* greater than the threshold, and those whose score equals it.
AboveThreshold ==
    { i \in 1..Len(heap[outs]) : RankContribution(heap[outs][i]) > cfg.bonus_threshold[1] }

AtThreshold ==
    { i \in 1..Len(heap[outs]) : RankContribution(heap[outs][i]) = cfg.bonus_threshold[1] }

\* C22: with bonus_threshold set, calculate_rating adds bonus_points once
\* for each outcome whose score after the rank-points transform is strictly
\* greater than the threshold and for no other, a score equal to the
\* threshold included; the history records the original scores.
BonusStrictlyAboveThreshold ==
    (sys = "points" /\ RatedCall /\ cfg.bonus_threshold # << >>) =>
        /\ cur.total_points = prev.total_points + TransformedSum(heap[outs])
                                + cfg.bonus_points * Cardinality(AboveThreshold)
        /\ heap[cur.points_history] = PointsHistoryOf(before, prev) \o heap[outs]

\* A call whose only score equals the threshold earned no bonus.
BonusStrictlyAboveThresholdWitness ==
    /\ sys = "points" /\ RatedCall /\ cfg.bonus_threshold # << >>
    /\ AtThreshold # {} /\ AboveThreshold = {}
    /\ cur.total_points = prev.total_points + TransformedSum(heap[outs])

\* A call with rank points in which the first position earned the bonus.
BonusAfterRankTransform ==
    /\ sys = "points" /\ RatedCall /\ cfg.bonus_threshold # << >> /\ cfg.rank_points # << >>
    /\ AboveThreshold # {} /\ AboveThreshold # 1..Len(heap[outs])

\* ------------------------------------------------------------------------
\* The one-sided Glicko-2 expectation

\* Deviations the first participant could have had instead.
OtherDeviations == { 0, 30 * RatingUnit, 200 * RatingUnit, 350 * RatingUnit }

\* C29: Glicko-2 expected_outcome((r1, RD1), (r2, RD2)) is the same for
\* every RD1, and is 1 / (1 + exp(-g(phi2) * (mu1 - mu2))).
GlickoExpectedIgnoresOwnDeviation ==
    (sys = "glicko2" /\ asked # << >>) =>
        /\ \A rd1 \in OtherDeviations :
               GlickoExpectedOutcome(<<asked[1][1], rd1>>, asked[2]) = answer
        /\ answer = Logistic(FMul(G(ToPhi(asked[2][2])),
                                  ToMu(asked[1][1]) - ToMu(asked[2][1])))

\* A question about two participants of different ratings and deviations,
\* the first one's deviation not among the alternatives.
GlickoExpectedIgnoresOwnDeviationWitness ==
    /\ sys = "glicko2" /\ asked # << >>
    /\ asked[1][1] # asked[2][1]
    /\ asked[1][2] # asked[2][2]
    /\ asked[1][2] \notin OtherDeviations
    /\ answer # One \div 2

\* ------------------------------------------------------------------------
\* The identity of the returned history list

\* The list objects that existed when the last call was made: the history
\* of the state passed in, the outcomes list and the histories of the
\* states returned before.
ListsBeforeCall == DOMAIN before

\* C30, as stated: the history list of a state returned by calculate_rating
\* is none of the list objects that existed before the call, for every call,
\* one with empty outcomes included.
ReturnedHistoryAlwaysNew ==
    (sys = "points" /\ calls > 0) => cur.points_history \notin ListsBeforeCall

\* C30, as the code has it: a call with at least one outcome returns a
\* history list that did not exist before the call, and so does
\* get_default_rating; a call with empty outcomes returns the history list
\* of the state passed in itself, or a new empty list for a bare total.
ReturnedHistoryNewWhenRated ==
    sys = "points" =>
        /\ RatedCall => cur.points_history \notin ListsBeforeCall
        /\ (EmptyCall /\ prev.is_tuple) => cur.points_history = prev.points_history
        /\ (EmptyCall /\ ~prev.is_tuple) => cur.points_history \notin ListsBeforeCall
        /\ PointsGetDefaultRating(cfg, heap).state.points_history \notin DOMAIN heap

\* A call with outcomes on a state with a history returned another list,
\* and a call with no outcomes returned the list it was given.
ReturnedHistoryNewWhenRatedWitness ==
    /\ sys = "points" /\ calls = MaxCalls /\ EmptyCall /\ prev.is_tuple
    /\ cur.points_history = prev.points_history
    /\ cur.points_history # outs
    /\ heap[cur.points_history] # << >>
    /\ cur.points_history > 1

\* ------------------------------------------------------------------------
\* The season projection

\* The last query was project_season_finish.
ProjectionAsked == asked # << >> /\ asked.op = "project_season_finish"

\* The history the last query was asked about, as floats.
AskedHistory == PointsFloats(heap[asked.current_rating.points_history])

\* C23: for every non-empty history, a single entry and negative or zero
\* values included, and every remaining_events, the result of
\* project_season_finish has
\* min_points <= lower_bound <= projected_points <= upper_bound <= max_points.
ProjectionBoundsOrdered ==
    (ProjectionAsked /\ AskedHistory # << >>) =>
        /\ answer.min_points <= answer.lower_bound
        /\ answer.lower_bound <= answer.projected_points
        /\ answer.projected_points <= answer.upper_bound
        /\ answer.upper_bound <= answer.max_points

\* The projection of the single entry -10 over one remaining event at the
\* confidence level 0.95: lower_bound -6.08 lies above projected_points -10
\* and upper_bound -13.92 below it.
ProjectionBoundsSwapped ==
    /\ ProjectionAsked
    /\ asked.current_rating.total_points = 0
    /\ AskedHistory = << -10 * One >>
    /\ asked.remaining_events = 1
    /\ asked.confidence_level = 950000
    /\ answer = [projected_points |-> -10 * One, min_points |-> -10 * One,
                 max_points |-> -10 * One,
                 lower_bound |-> -6080000, upper_bound |-> -13920000]

\* mean(history), min(history) and max(history) of a non-empty history.
MeanOf(xs) == RoundDiv(PointsSum(xs), Len(xs))

LeastOf(xs) == CHOOSE x \in { xs[i] : i \in 1..Len(xs) } : \A i \in 1..Len(xs) : x <= xs[i]

GreatestOf(xs) == CHOOSE x \in { xs[i] : i \in 1..Len(xs) } : \A i \in 1..Len(xs) : x >= xs[i]

\* What project_season_finish((total, history), n) is to return.
ProjectionAsStated(result, total, xs, n) ==
    IF xs = << >>
    THEN result = [projected_points |-> total, min_points |-> total, max_points |-> total,
                   lower_bound |-> total, upper_bound |-> total]
    ELSE /\ result.projected_points = total + MeanOf(xs) * n
         /\ result.min_points = total + LeastOf(xs) * n
         /\ result.max_points = total + GreatestOf(xs) * n

\* C24: project_season_finish((total, history), n) returns
\* projected_points = total + mean(history) * n,
\* min_points = total + min(history) * n and
\* max_points = total + max(history) * n for a non-empty history and all
\* five outputs equal to total for an empty one, and the call changes
\* neither the history lists nor the instance.
ProjectionFormulas ==
    [][ (asked' # << >> /\ asked'.op = "project_season_finish") =>
            /\ ProjectionAsStated(answer',
                                  PointsFloat(asked'.current_rating.total_points),
                                  PointsFloats(heap[asked'.current_rating.points_history]),
                                  asked'.remaining_events)
            /\ heap' = heap
            /\ cfg' = cfg ]_vars

\* The projection of (30, [20, 10, 30, 5.5]) over 3 events at the level
\* 0.90: 79.125, between 46.5 and 120.
ProjectionFormulasWitness ==
    /\ ProjectionAsked
    /\ asked.current_rating.total_points = Points(30)
    /\ heap[asked.current_rating.points_history] = << Points(20), Points(10), Points(30), 55 >>
    /\ asked.remaining_events = 3
    /\ asked.confidence_level = 900000
    /\ answer.projected_points = 79125000
    /\ answer.min_points = 46500000
    /\ answer.max_points = 120 * One
    /\ Abs(answer.lower_bound - 63569363) <= 5
    /\ Abs(answer.upper_bound - 94680637) <= 5

\* A projection was asked for an empty history and a nonzero total.
ProjectionOfEmptyHistory ==
    /\ ProjectionAsked /\ AskedHistory = << >>
    /\ asked.current_rating.total_points = Points(30)
    /\ asked.remaining_events = 3
    /\ answer.upper_bound = 30 * One

\* ------------------------------------------------------------------------
\* The trend

\* The last query was get_trend.
TrendAsked == asked # << >> /\ asked.op = "get_trend"

\* The sums of the last window entries and of the window entries before.
RecentSum == PointsSum(TrendRecent(heap[asked.points_history], asked.window))

PreviousSum == PointsSum(TrendPrevious(heap[asked.points_history], asked.window))

\* The trend of a change from the earlier sum to the recent one: the change
\* relative to the earlier level exceeds 10% when it exceeds a tenth of the
\* magnitude of that level.
TrendAsStated(recent, previous) ==
    IF 10 * (recent - previous) > Abs(previous) THEN "up"
    ELSE IF 10 * (recent - previous) < -Abs(previous) THEN "down"
    ELSE "stable"

\* C25: get_trend(history, window) returns "stable" for fewer than
\* 2 * window entries; otherwise "up" when the average of the last window
\* entries exceeds the average of the window entries before by more than
\* 10% of it, "down" when it falls short by more than 10%, else "stable",
\* also when the earlier average is zero or negative.
TrendFollowsRelativeChange ==
    TrendAsked =>
        IF Len(heap[asked.points_history]) < 2 * asked.window
        THEN answer = "stable"
        ELSE answer = TrendAsStated(RecentSum, PreviousSum)

\* The same for the histories whose earlier-window average is positive.
TrendFollowsRelativeChangeOfPositive ==
    (TrendAsked /\ Len(heap[asked.points_history]) >= 2 * asked.window /\ PreviousSum > 0)
        => answer = TrendAsStated(RecentSum, PreviousSum)

\* A rise from -10 to 20 was reported as "stable".
TrendOfNegativeLevelStable ==
    /\ TrendAsked /\ asked.window = 1
    /\ heap[asked.points_history] = << Points(-10), Points(20) >>
    /\ answer = "stable"

\* ------------------------------------------------------------------------
\* The ranking

\* The last query was rank_participants.
RankingAsked == asked # << >> /\ asked.op = "rank_participants"

\* The place of a participant in the input map.
PlaceInMap(pid) == CHOOSE i \in 1..Len(asked.ratings) : asked.ratings[i][1] = pid

\* C26: rank_participants returns one (id, total) entry for each participant
\* of the input map and no other, ordered by total from highest to lowest,
\* participants of equal totals in the order in which the map lists them.
RankingStableDescending ==
    RankingAsked =>
        /\ Len(answer) = Len(asked.ratings)
        /\ \A i \in 1..Len(asked.ratings) :
               \E j \in 1..Len(answer) :
                   answer[j] = <<asked.ratings[i][1], asked.ratings[i][2].total_points>>
        /\ \A j, k \in 1..Len(answer) :
               j < k => /\ answer[j][2] >= answer[k][2]
                        /\ answer[j][2] = answer[k][2]
                               => PlaceInMap(answer[j][1]) < PlaceInMap(answer[k][1])

\* Three participants were ranked, the one listed last first, the two of
\* equal totals after it in the order of the map.
RankingStableDescendingWitness ==
    /\ RankingAsked
    /\ asked.ratings = << <<"bob", PointsState(Points(10), 1)>>,
                          <<"alice", PointsState(Points(10), 1)>>,
                          <<"carol", PointsState(Points(20), 1)>> >>
    /\ answer = << <<"carol", Points(20)>>, <<"bob", Points(10)>>, <<"alice", Points(10)>> >>

\* ------------------------------------------------------------------------
\* The dynamic K-factor

\* The K of the band of a rating: 32 below 2100, 24 from 2100 to below
\* 2400, 16 from 2400 on.
KOfBand(r) ==
    IF r < 2100 * RatingUnit THEN 32
    ELSE IF 2100 * RatingUnit <= r /\ r < 2400 * RatingUnit THEN 24
    ELSE 16

\* C27: adjust_k_factor(r) is 32 for r < 2100, 24 for 2100 <= r < 2400 and
\* 16 for r >= 2400, and get_rating_with_dynamic_k(r, outcomes) equals
\* calculate_rating(r, outcomes) of an Elo system with that K-factor,
\* whatever the K-factor of the instance.
DynamicKDerivedOnce ==
    /\ (asked # << >> /\ asked.op = "adjust_k_factor") => answer = KOfBand(asked.rating)
    /\ (asked # << >> /\ asked.op = "get_rating_with_dynamic_k") =>
           answer = EloCalculateRating(KOfBand(asked.rating), asked.rating, asked.outcomes)

\* An instance with K-factor 24 was asked about a player rated 2095 who
\* won twice against 2100: both games count with K = 32, the second one too
\* although the first carries the running rating above 2100.
DynamicKDerivedOnceWitness ==
    /\ asked # << >> /\ asked.op = "get_rating_with_dynamic_k"
    /\ cfg.k_factor = 24
    /\ asked.rating = 2095 * RatingUnit
    /\ asked.outcomes = << EloOutcome(2100, Win), EloOutcome(2100, Win) >>
    /\ answer = EloCalculateRating(32, asked.rating, asked.outcomes)
    /\ answer # EloCalculateRating(cfg.k_factor, asked.rating, asked.outcomes)
    /\ answer > 2100 * RatingUnit
    /\ EloCalculateRating(32, asked.rating, << EloOutcome(2100, Win) >>) > 2100 * RatingUnit

\* adjust_k_factor was asked at a band limit.
AdjustKFactorAtLimit ==
    /\ asked # << >> /\ asked.op = "adjust_k_factor"
    /\ asked.rating = 2400 * RatingUnit /\ answer = 16

\* ------------------------------------------------------------------------
\* The visualizers' normalization

\* The triple a value is to become: a 3-tuple itself, a 2-tuple (a, b)
\* the triple (a, b, 0), a number x the triple (x, 0, 0), every other value
\* (0, 0, 0).
DisplayAsStated(rating_data) ==
    IF rating_data.type = "tuple" /\ Len(rating_data.items) = 3 THEN rating_data.items
    ELSE IF rating_data.type = "tuple" /\ Len(rating_data.items) = 2
    THEN << rating_data.items[1], rating_data.items[2], 0 >>
    ELSE IF rating_data.type = "float" THEN << rating_data.value, 0, 0 >>
    ELSE IF rating_data.type = "int" THEN << rating_data.value * RatingUnit, 0, 0 >>
    ELSE << 0, 0, 0 >>

\* The series of a participant in a history, empty ones when it has none.
SeriesOf(history, name) ==
    IF \E i \in DOMAIN history : history[i][1] = name
    THEN history[CHOOSE i \in DOMAIN history : history[i][1] = name][2]
    ELSE [ratings |-> << >>, rds |-> << >>, vols |-> << >>]

\* A track call appended the triple to the three series of its participant
\* and left the series of the others as they were.
TrackAppended(old, new, name, display) ==
    /\ SeriesOf(new, name).ratings = Append(SeriesOf(old, name).ratings, display[1])
    /\ SeriesOf(new, name).rds = Append(SeriesOf(old, name).rds, display[2])
    /\ SeriesOf(new, name).vols = Append(SeriesOf(old, name).vols, display[3])
    /\ \A other \in Participants \ {name} : SeriesOf(new, other) = SeriesOf(old, other)

\* C28: _convert_to_display_format returns a 3-tuple unchanged, (a, b, 0)
\* for a 2-tuple (a, b), (x, 0, 0) for a bare number x and (0, 0, 0) for
\* every other value, a list and None included, and track appends exactly
\* this triple to the three series of the participant.
TrackAppendsStatedTriple ==
    [][ calls' = calls + 1 =>
            TrackAppended(tracked, tracked', asked'.name,
                          DisplayAsStated(asked'.rating_data)) ]_vars

\* The same for every value but a tuple of more than three elements.
TrackAppendsStatedTripleUpToThree ==
    [][ (calls' = calls + 1
            /\ ~(asked'.rating_data.type = "tuple" /\ Len(asked'.rating_data.items) > 3)) =>
            TrackAppended(tracked, tracked', asked'.name,
                          DisplayAsStated(asked'.rating_data)) ]_vars

\* A tuple of four elements was tracked as its first three elements.
TrackOfFourTuple ==
    /\ sys = "visualizer" /\ calls = 1
    /\ asked.rating_data = PyTuple(<< 1500 * RatingUnit, 350 * RatingUnit, 6000, 1 >>)
    /\ SeriesOf(tracked, asked.name) =
           [ratings |-> << 1500 * RatingUnit >>, rds |-> << 350 * RatingUnit >>,
            vols |-> << 6000 >>]

====
